---- MODULE Spec2Model ----
(***************************************************************************)
(* Verification model of the CoinMoney decision-and-allocation core:       *)
(*   - ai/credit_system.py      CreditSystem (daily AI credit ledger)      *)
(*   - master/global_risk.py    GlobalRiskManager (circuit breaker)        *)
(*   - master/controller_v3.py  SmartMasterController.analyze_and_adjust   *)
(*   - master/portfolio_manager.py DynamicWorkerManager                    *)
(*   - main.py                  CoinMoneyBot workers and run()             *)
(* Each subsystem has its own specification over the shared variables.     *)
(***************************************************************************)
EXTENDS Integers, Sequences, FiniteSets, TLC

VARIABLES
    \* ---- CreditSystem (ai/credit_system.py) ----
    used,           \* self.used
    credit_file,    \* contents of data/ai_credits.json
    now,            \* datetime.now(): [day, tod]
    lastOp,         \* name of the ledger operation that ran last
    ret,            \* its return value
    spentToday,     \* history: credits really spent on the calendar day now.day
    loaded,         \* history: file contents the last load_credits read
    nUses,          \* history: number of successful use_credit calls of this run
    \* ---- concurrent callers of the ledger ----
    pc,             \* position of each caller
    tmp,            \* value of self.used a caller read for `self.used += cost`
    tret,           \* what use_credit returned to each caller
    reqAction,      \* the action every caller requests
    startRemaining, \* get_remaining() when the callers started
    \* ---- GlobalRiskManager (master/global_risk.py) and StateManager.state ----
    trading_enabled,        \* self.trading_enabled (the latch, TRUE = trading allowed)
    emergency_stop_reason,  \* self.emergency_stop_reason
    consecutive_losses,     \* state['risk']['consecutive_losses']
    max_drawdown,           \* state['risk']['max_drawdown'], in 1/1000
    daily_loss_percent,     \* state['risk']['daily_loss_percent'], in 1/1000, signed
    daily_pnl,              \* state[exchange]['daily_pnl'], in 1/1000 of TOTAL_INVESTMENT
    daily_trades,           \* state[exchange]['daily_trades']
    positions,              \* state[exchange]['positions'] (its keys)
    riskOp,                 \* name of the risk operation that ran last
    riskResult,             \* what it returned
    breachSeen,             \* history: a check found a hard breach and no resume followed
    nTrades,                \* history: number of record_trade calls of this run
    \* ---- SmartMasterController (master/controller_v3.py) and AICallTrigger ----
    ai_enabled,         \* self.ai_enabled = AI_CONFIG['enabled'] and AI_AVAILABLE
    analysis_count,     \* self.analysis_count
    ai_call_count,      \* self.ai_call_count (debates that returned a result)
    last_ai_time,       \* self.last_ai_time with self.last_ai_result, NoTime = None
    last_ai_call,       \* ai_trigger.last_ai_call, NoTime = None
    trigger_call_count, \* ai_trigger.ai_call_count
    prevented_calls,    \* ai_trigger.prevented_calls
    minute,             \* datetime.now() of the controller, in minutes
    cycleTrace,         \* history: the steps the last analyze_and_adjust call went through
    cycleOutcome,       \* history: how that call ended
    \* ---- DynamicWorkerManager (master/portfolio_manager.py), workers and run() (main.py) ----
    botAcceptsBudget,   \* does bot_instance.spot_worker accept (ticker, budget)?
    tasks,              \* every asyncio task created so far, by handle 1..Len(tasks)
    active_workers,     \* self.active_workers: ticker -> handle, NoTask = no entry
    worker_budgets,     \* self.worker_budgets: ticker -> budget, NoBudget = no entry
    mgrLast,            \* history: what the last manager call did
    nCalls,             \* history: number of update_workers calls
    runState,           \* position of CoinMoneyBot.run
    \* ---- AICallTrigger.should_call_ai seen from its caller (ai/ai_call_trigger.py) ----
    trigInput,          \* the (market_data, news_data, position_data) of the last call
    trigSubs,           \* the sub-scores computed for trigInput, NoSubs before
    trigDecision,       \* history: what the last should_call_ai call decided
    \* ---- strategy selection of the controllers ----
    active_strategies,  \* SmartMasterController.active_strategies
    current_regime,     \* SmartMasterController.current_regime
    decision_guide,     \* SmartMasterController.decision_guide
    news_urgency,       \* SmartMasterController.news_urgency, in tenths
    selProbe,           \* history: one analysis whose selections are compared
    selProbeResult,     \* history: what the first call with selProbe selected
    selLast,            \* history: the analysis of the last _adjust_strategies call
    \* ---- MasterController (master/controller.py) ----
    ai_available,       \* self.ai_available
    ai_failure_count,   \* self.ai_failure_count
    last_debate_set,    \* self.last_debate_time is not None
    v1_ai_enabled,      \* self.ai_enabled of the v1 controller
    v1_active_strategies, \* self.active_strategies of the v1 controller
    v1SelLast,          \* history: the analysis of the last v1 _adjust_strategies call
    v1Last,             \* history: what the last v1 operation did
    \* ---- fusion of a local and an external analysis ----
    fuseLocal,          \* the local (technical) result handed to the fusion
    fuseExternal,       \* the external (AI) result handed to the fusion
    fuseOut,            \* what the fusion and the state update after it produced
    \* ---- PortfolioManager.analyze_and_allocate (master/portfolio_manager.py) ----
    planInput,          \* the selection the plan is built from
    planOut,            \* the allocation plan returned, NoPlan before
    \* ---- concurrent analyze_and_adjust calls on the shared controller ----
    callPc,             \* position of each calling thread in analyze_and_adjust
    callAnalysis,       \* final_result of each thread's own analysis (a local)
    callReturned        \* the dict analyze_and_adjust returned to each thread

ledgerVars == <<used, credit_file, now, lastOp, ret, spentToday, loaded, nUses>>
callerVars == <<pc, tmp, tret, reqAction, startRemaining>>

riskVars == <<trading_enabled, emergency_stop_reason, consecutive_losses, max_drawdown,
              daily_loss_percent, daily_pnl, daily_trades, positions, riskOp, riskResult,
              breachSeen, nTrades>>

cycleVars == <<ai_enabled, analysis_count, ai_call_count, last_ai_time, last_ai_call,
               trigger_call_count, prevented_calls, minute, cycleTrace, cycleOutcome>>

workerVars == <<botAcceptsBudget, tasks, active_workers, worker_budgets, mgrLast, nCalls,
                runState>>

triggerVars == <<trigInput, trigSubs, trigDecision>>

selectorVars == <<active_strategies, current_regime, decision_guide, news_urgency,
                  selProbe, selProbeResult, selLast>>

v1Vars == <<v1_ai_enabled, ai_available, ai_failure_count, last_debate_set, v1Last,
            v1_active_strategies, v1SelLast>>

fusionVars == <<fuseLocal, fuseExternal, fuseOut>>

planVars == <<planInput, planOut>>

sharedVars == <<callPc, callAnalysis, callReturned>>

vars == <<ledgerVars, callerVars, riskVars, cycleVars, workerVars, triggerVars,
          selectorVars, v1Vars, fusionVars, planVars, sharedVars>>

\* what the operations of one subsystem leave alone
notLedger  == <<callerVars, riskVars, cycleVars, workerVars, triggerVars, selectorVars, v1Vars, fusionVars, planVars, sharedVars>>
notCallers == <<riskVars, cycleVars, workerVars, triggerVars, selectorVars, v1Vars, fusionVars, planVars, sharedVars>>
notRisk    == <<ledgerVars, callerVars, cycleVars, workerVars, triggerVars, selectorVars, v1Vars, fusionVars, planVars, sharedVars>>
notWorkers == <<ledgerVars, callerVars, riskVars, cycleVars, triggerVars, selectorVars, v1Vars, fusionVars, planVars, sharedVars>>
notCycle   == <<ledgerVars, callerVars, workerVars, triggerVars, v1Vars, fusionVars, planVars, sharedVars>>

(***************************************************************************)
(* Bounds                                                                  *)
(***************************************************************************)
MaxDay == 2
MaxTod == 1
NumCallers == 2
MaxUses == 3
MaxTrades == 4
MaxCycles == 3
MaxMinute == 13
MaxTasks == 2
MaxCalls == 3
MaxTriggerCalls == 4
MaxV1Calls == 8

(***************************************************************************)
(* CreditSystem                                                            *)
(***************************************************************************)
DailyLimit == 50

Actions == {"single_ai", "debate", "emergency", "other"}

\* self.costs.get(action, 1)
Cost(action) ==
    CASE action = "single_ai" -> 1
      [] action = "debate"    -> 2
      [] action = "emergency" -> 3
      [] OTHER                -> 1

Max(a, b) == IF a >= b THEN a ELSE b

\* datetime.isoformat(): the string keeps the date and the time of day
IsoFormat(dt) == <<dt.day, dt.tod>>

\* datetime.fromisoformat(): a date-only string parses to midnight
FromIsoFormat(s) ==
    [day |-> s[1], tod |-> IF Len(s) >= 2 THEN s[2] ELSE 0]

\* datetime.date()
DateOf(dt) == dt.day

\* data.get('date', '2000-01-01'): a day before every day of the model
DefaultDate == <<0 - 1>>

NoFile  == [kind |-> "missing", hasDate |-> FALSE, date |-> <<>>, hasUsed |-> FALSE, used |-> 0]
Corrupt == [kind |-> "corrupt", hasDate |-> FALSE, date |-> <<>>, hasUsed |-> FALSE, used |-> 0]

\* the record save_credits writes
SavedRecord(dt, u) ==
    [kind |-> "ok", hasDate |-> TRUE, date |-> IsoFormat(dt), hasUsed |-> TRUE, used |-> u]

\* mutant: the stored timestamp is compared whole, not by its date
LoadedUsed_CompareDatetime(f, dt) ==
    IF f.kind = "missing" THEN 0
    ELSE IF f.kind = "corrupt" THEN 0
    ELSE LET last_date == FromIsoFormat(IF f.hasDate THEN f.date ELSE DefaultDate)
         IN IF last_date = dt
            THEN (IF f.hasUsed THEN f.used ELSE 0)
            ELSE 0

\* self.used after load_credits has read file f at time dt
LoadedUsed(f, dt) ==
    IF f.kind = "missing" THEN 0
    ELSE IF f.kind = "corrupt" THEN 0
    ELSE LET last_date == FromIsoFormat(IF f.hasDate THEN f.date ELSE DefaultDate)
             today     == DateOf(dt)
         IN IF DateOf(last_date) = today
            THEN (IF f.hasUsed THEN f.used ELSE 0)
            ELSE 0

GetRemainingOf(u) == Max(0, DailyLimit - u)

CanUseOf(u, action) == GetRemainingOf(u) >= Cost(action)

(***************************************************************************)
(* GlobalRiskManager over StateManager.state.  Fractions of the account    *)
(* (daily_loss_percent, max_drawdown and their limits) are kept in 1/1000. *)
(***************************************************************************)
DailyLossLimit == 50
MaxConsecutiveLosses == 4
AccountDrawdownLimit == 150
MaxPositionsSpot == 2
MaxPositionsFutures == 1
MaxTradesPerDaySpot == 15
MaxTradesPerDayFutures == 10

Exchanges == {"spot", "futures"}

\* TRADING_COINS
Coins == [spot |-> {"KRW-BTC", "KRW-ETH"}, futures |-> {"BTCUSDT", "ETHUSDT"}]

MaxPositions == [spot |-> MaxPositionsSpot, futures |-> MaxPositionsFutures]
MaxTradesPerDay == [spot |-> MaxTradesPerDaySpot, futures |-> MaxTradesPerDayFutures]

Abs(x) == IF x < 0 THEN 0 - x ELSE x

\* limit * 0.7
WarningThreshold(limit) == (limit * 7) \div 10

\* _check_daily_loss
CheckDailyLoss(dlp) ==
    [percent  |-> Abs(dlp),
     exceeded |-> Abs(dlp) >= DailyLossLimit,
     warning  |-> Abs(dlp) >= WarningThreshold(DailyLossLimit)]

\* _check_consecutive_losses
CheckConsecutiveLosses(n) ==
    [count    |-> n,
     exceeded |-> n >= MaxConsecutiveLosses,
     warning  |-> n >= MaxConsecutiveLosses - 1]

\* _check_account_drawdown
CheckAccountDrawdown(dd) ==
    [percent  |-> dd,
     exceeded |-> dd >= AccountDrawdownLimit,
     warning  |-> dd >= WarningThreshold(AccountDrawdownLimit)]

\* the position check with one cap reached counted against both classes
CheckPositionLimits_AnyClass(pos) ==
    LET any == \/ Cardinality(pos["spot"]) >= MaxPositions["spot"]
               \/ Cardinality(pos["futures"]) >= MaxPositions["futures"]
    IN  [spot_count       |-> Cardinality(pos["spot"]),
         spot_exceeded    |-> any,
         futures_count    |-> Cardinality(pos["futures"]),
         futures_exceeded |-> any]

\* _check_position_limits
CheckPositionLimits(pos) ==
    [spot_count       |-> Cardinality(pos["spot"]),
     spot_exceeded    |-> Cardinality(pos["spot"]) >= MaxPositions["spot"],
     futures_count    |-> Cardinality(pos["futures"]),
     futures_exceeded |-> Cardinality(pos["futures"]) >= MaxPositions["futures"]]

\* _check_trade_limits
CheckTradeLimits(tr) ==
    [spot_count       |-> tr["spot"],
     spot_exceeded    |-> tr["spot"] >= MaxTradesPerDay["spot"],
     futures_count    |-> tr["futures"],
     futures_exceeded |-> tr["futures"] >= MaxTradesPerDay["futures"]]

\* check_risk_limits, the part that only reads: the breach flag, the reason of
\* the first breach found (daily loss, consecutive losses, drawdown) and the warnings
RiskFindings ==
    LET dl == CheckDailyLoss(daily_loss_percent)
        cl == CheckConsecutiveLosses(consecutive_losses)
        dd == CheckAccountDrawdown(max_drawdown)
        ps == CheckPositionLimits(positions)
        tr == CheckTradeLimits(daily_trades)
    IN  [emergency_stop |-> dl.exceeded \/ cl.exceeded \/ dd.exceeded,
         reason |-> IF dl.exceeded THEN "daily_loss"
                    ELSE IF cl.exceeded THEN "consecutive_losses"
                    ELSE IF dd.exceeded THEN "drawdown"
                    ELSE "None",
         warnings |->
               (IF ~dl.exceeded /\ dl.warning THEN {"daily_loss"} ELSE {})
          \cup (IF ~cl.exceeded /\ cl.warning THEN {"consecutive_losses"} ELSE {})
          \cup (IF ~dd.exceeded /\ dd.warning THEN {"drawdown"} ELSE {})
          \cup (IF ps.spot_exceeded THEN {"spot_positions"} ELSE {})
          \cup (IF ps.futures_exceeded THEN {"futures_positions"} ELSE {})
          \cup (IF tr.spot_exceeded THEN {"spot_trades"} ELSE {})
          \cup (IF tr.futures_exceeded THEN {"futures_trades"} ELSE {})]

\* no risk operation has returned anything yet
NoResult == [trading_allowed |-> TRUE, warnings |-> {}, emergency_stop |-> FALSE, reason |-> "-"]

\* profit or loss of one closed trade, in 1/1000 of TOTAL_INVESTMENT
PnlValues == {0 - 40, 30}

\* max_drawdown values reported to update_risk
DrawdownValues == {110, 150}

\* states an earlier run left in the state file: a fresh one, and ones near the caps
RestoredStates ==
    {[consecutive_losses |-> 0, spot_trades |-> 0, futures_trades |-> 0],
     [consecutive_losses |-> MaxConsecutiveLosses - 1,
      spot_trades |-> MaxTradesPerDaySpot - 1,
      futures_trades |-> MaxTradesPerDayFutures - 1]}

RiskConstructed(r) ==
    /\ trading_enabled = TRUE
    /\ emergency_stop_reason = "None"
    /\ consecutive_losses = r.consecutive_losses
    /\ max_drawdown = 0
    /\ daily_loss_percent = 0
    /\ daily_pnl = [e \in Exchanges |-> 0]
    /\ daily_trades = [spot |-> r.spot_trades, futures |-> r.futures_trades]
    /\ positions = [e \in Exchanges |-> {}]
    /\ riskOp = "init"
    /\ riskResult = NoResult
    /\ breachSeen = FALSE
    /\ nTrades = 0

\* StateManager._default_state and GlobalRiskManager.__init__
RiskIdle == RiskConstructed([consecutive_losses |-> 0, spot_trades |-> 0, futures_trades |-> 0])

(***************************************************************************)
(* SmartMasterController and AICallTrigger after construction              *)
(***************************************************************************)
NoTime == 0 - 1

CycleConstructed(enabled) ==
    /\ ai_enabled = enabled
    /\ analysis_count = 0
    /\ ai_call_count = 0
    /\ last_ai_time = NoTime
    /\ last_ai_call = NoTime
    /\ trigger_call_count = 0
    /\ prevented_calls = 0
    /\ minute = 0
    /\ cycleTrace = <<>>
    /\ cycleOutcome = "none"

CycleIdle == CycleConstructed(FALSE)

(***************************************************************************)
(* DynamicWorkerManager after __init__, before CoinMoneyBot.run            *)
(***************************************************************************)
\* tickers an allocation may name
Tickers == {"KRW-SOL", "KRW-XRP"}

NoTask == 0
NoBudget == 0 - 1
NoBuy == 0 - 1

NoCall == [op |-> "none", target |-> <<>>, attempted |-> {}, started |-> {}, stopped |-> {},
           rebudgeted |-> {}, repeat |-> FALSE, before |-> <<>>]

WorkersConstructed(accepts) ==
    /\ botAcceptsBudget = accepts
    /\ tasks = <<>>
    /\ active_workers = [t \in Tickers |-> NoTask]
    /\ worker_budgets = [t \in Tickers |-> NoBudget]
    /\ mgrLast = NoCall
    /\ nCalls = 0
    /\ runState = "not_started"

WorkersIdle == WorkersConstructed(FALSE)

(***************************************************************************)
(* AICallTrigger: the inputs of should_call_ai and its sub-scores.         *)
(* Percentages, ratios, urgencies and scores are kept in tenths            *)
(* (change_5m = 60 is 6.0%, a score of 300 is 30.0 points); rsi is in      *)
(* whole points and risk_score in hundredths.                              *)
(***************************************************************************)
PriceChange5m == 30
PriceChange1h == 50
VolumeSurge == 25
VolatilityThreshold == 50
NewsUrgencyThreshold == 65
NewsCount1h == 5
PositionRisk == 80
EmergencyDrop == 50

Min(a, b) == IF a <= b THEN a ELSE b

\* market_data, news_data and position_data with nothing going on
QuietInput ==
    [rows |-> 100, change_5m |-> 0, change_1h |-> 0, volume_ratio |-> 10, volatility |-> 10,
     rsi |-> 50, macd |-> "none", bb |-> "mid", ma_strong |-> FALSE,
     rsi_macd_conflict |-> FALSE, price_trend_conflict |-> FALSE,
     has_news |-> FALSE, urgency |-> 0, emergency |-> FALSE, count_1h |-> 0,
     has_position |-> FALSE, near |-> "none", trailing_stop_risk |-> FALSE, risk_score |-> 0]

\* _check_market_events
MarketScores(inp) ==
    [price_5m   |-> IF inp.rows >= 5 /\ Abs(inp.change_5m) >= PriceChange5m
                    THEN Min(Abs(inp.change_5m) * 5, 300) ELSE 0,
     price_1h   |-> IF inp.rows >= 60 /\ Abs(inp.change_1h) >= PriceChange1h
                    THEN Min(Abs(inp.change_1h) * 3, 250) ELSE 0,
     volume     |-> IF inp.rows >= 20 /\ inp.volume_ratio >= VolumeSurge
                    THEN Min((inp.volume_ratio - 10) * 10, 200) ELSE 0,
     volatility |-> IF inp.rows >= 24 /\ inp.volatility >= VolatilityThreshold
                    THEN Min(inp.volatility * 2, 150) ELSE 0]

\* _check_technical_events
TechnicalScores(inp) ==
    IF inp.rows < 20
    THEN [rsi_oversold |-> 0, rsi_overbought |-> 0, macd |-> 0, bb |-> 0, ma |-> 0]
    ELSE [rsi_oversold   |-> IF inp.rsi <= 25 THEN (30 - inp.rsi) * 5 ELSE 0,
          rsi_overbought |-> IF inp.rsi > 25 /\ inp.rsi >= 75 THEN (inp.rsi - 70) * 5 ELSE 0,
          macd |-> IF inp.macd \in {"bullish", "bearish"} THEN 150 ELSE 0,
          bb   |-> IF inp.bb \in {"lower", "upper"} THEN 100 ELSE 0,
          ma   |-> IF inp.ma_strong THEN 120 ELSE 0]

\* _check_news_events, called only `if news_data`
NewsScores(inp) ==
    IF ~inp.has_news
    THEN [news_urgency |-> 0, news_emergency |-> 0, news_count |-> 0]
    ELSE [news_urgency   |-> IF inp.urgency >= NewsUrgencyThreshold THEN inp.urgency * 4 ELSE 0,
          news_emergency |-> IF inp.emergency THEN 500 ELSE 0,
          news_count     |-> IF inp.count_1h >= NewsCount1h
                             THEN Min(inp.count_1h * 20, 150) ELSE 0]

\* _check_position_events, called only `if position_data`
PositionScores(inp) ==
    IF ~inp.has_position
    THEN [position_near |-> 0, position_trailing |-> 0, position_risk |-> 0]
    ELSE [position_near     |-> IF inp.near = "stop_loss" THEN 200
                                ELSE IF inp.near = "take_profit" THEN 180 ELSE 0,
          position_trailing |-> IF inp.trailing_stop_risk THEN 150 ELSE 0,
          position_risk     |-> IF inp.risk_score >= PositionRisk
                                THEN Min((inp.risk_score * 5) \div 2, 200) ELSE 0]

\* _check_indicator_conflicts
ConflictScores(inp) ==
    IF inp.rows < 20
    THEN [rsi_macd_conflict |-> 0, price_trend_conflict |-> 0]
    ELSE [rsi_macd_conflict    |-> IF inp.rsi_macd_conflict THEN 150 ELSE 0,
          price_trend_conflict |-> IF inp.price_trend_conflict THEN 120 ELSE 0]

\* every sub-score of one should_call_ai call
SubScores(inp) ==
    LET mk == MarketScores(inp)
        tc == TechnicalScores(inp)
        nw == NewsScores(inp)
        ps == PositionScores(inp)
        cf == ConflictScores(inp)
    IN  [computed |-> TRUE,
         price_5m |-> mk.price_5m, price_1h |-> mk.price_1h, volume |-> mk.volume,
         volatility |-> mk.volatility,
         rsi_oversold |-> tc.rsi_oversold, rsi_overbought |-> tc.rsi_overbought,
         macd |-> tc.macd, bb |-> tc.bb, ma |-> tc.ma,
         news_urgency |-> nw.news_urgency, news_emergency |-> nw.news_emergency,
         news_count |-> nw.news_count,
         position_near |-> ps.position_near, position_trailing |-> ps.position_trailing,
         position_risk |-> ps.position_risk,
         rsi_macd_conflict |-> cf.rsi_macd_conflict,
         price_trend_conflict |-> cf.price_trend_conflict]

NoSubs == [SubScores(QuietInput) EXCEPT !.computed = FALSE]

\* total_score of should_call_ai
TotalScore(sc) ==
    sc.price_5m + sc.price_1h + sc.volume + sc.volatility
    + sc.rsi_oversold + sc.rsi_overbought + sc.macd + sc.bb + sc.ma
    + sc.news_urgency + sc.news_emergency + sc.news_count
    + sc.position_near + sc.position_trailing + sc.position_risk
    + sc.rsi_macd_conflict + sc.price_trend_conflict

\* _is_emergency(market_data, news_data)
IsEmergency(inp) ==
    \/ inp.has_news /\ inp.emergency
    \/ inp.rows >= 5 /\ inp.change_5m <= 0 - EmergencyDrop

\* _determine_urgency(score, triggers): an 'emergency' trigger is in the list
\* exactly when the news checker scored one; no checker emits 'price_crash'
DetermineUrgency(score, subs) ==
    IF subs.news_emergency > 0 THEN "emergency"
    ELSE IF score >= 800 THEN "emergency"
    ELSE IF score >= 600 THEN "high"
    ELSE IF score >= 400 THEN "normal"
    ELSE "low"

\* inputs over which the sub-scores are computed
NewsInputs ==
    {[has_news |-> FALSE, urgency |-> 0, emergency |-> FALSE, count_1h |-> 0],
     [has_news |-> TRUE, urgency |-> 50, emergency |-> FALSE, count_1h |-> 1],
     [has_news |-> TRUE, urgency |-> 100, emergency |-> FALSE, count_1h |-> 10],
     [has_news |-> TRUE, urgency |-> 95, emergency |-> TRUE, count_1h |-> 0]}

MarketInputs ==
    {[QuietInput EXCEPT !.rows = r, !.change_5m = c5, !.change_1h = c1, !.volume_ratio = vr,
                        !.volatility = vl, !.rsi = rs,
                        !.has_news = nw.has_news, !.urgency = nw.urgency,
                        !.emergency = nw.emergency, !.count_1h = nw.count_1h,
                        !.has_position = (rk > 0), !.risk_score = rk] :
        r \in {1, 100}, c5 \in {0 - 60, 0, 29, 60}, c1 \in {0, 100}, vr \in {10, 40},
        vl \in {10, 100}, rs \in {0, 20, 50, 100}, nw \in NewsInputs, rk \in {0, 100}}

IndicatorInputs ==
    {[QuietInput EXCEPT !.macd = m, !.bb = b, !.ma_strong = ma, !.rsi_macd_conflict = c1,
                        !.price_trend_conflict = c2, !.has_position = TRUE, !.near = nr,
                        !.trailing_stop_risk = tr] :
        m \in {"none", "bullish", "bearish"}, b \in {"lower", "mid", "upper"},
        ma \in BOOLEAN, c1 \in BOOLEAN, c2 \in BOOLEAN,
        nr \in {"none", "stop_loss", "take_profit"}, tr \in BOOLEAN}

TriggerInputs == MarketInputs \cup IndicatorInputs

NoDecision ==
    [made |-> FALSE, raised |-> FALSE, blocked |-> FALSE, should_call |-> FALSE, score |-> 0,
     emergency |-> FALSE, t |-> 0, prev_last |-> NoTime, prev_count |-> 0,
     stampReturned |-> FALSE, afterReturned |-> FALSE, urgency |-> "none",
     has_threshold |-> FALSE]

TriggerIdle ==
    /\ trigInput = QuietInput
    /\ trigSubs = NoSubs
    /\ trigDecision = NoDecision

(***************************************************************************)
(* Strategy selection: SmartMasterController._adjust_strategies (v3) and   *)
(* MasterController._adjust_strategies (v1).  Volatility is in thousandths *)
(* (50 is 0.05), news urgency in tenths (70 is 7.0); strategy lists are    *)
(* kept as sets.                                                           *)
(***************************************************************************)
Regimes == {"STRONG_UPTREND", "WEAK_UPTREND", "SIDEWAYS", "WEAK_DOWNTREND",
            "STRONG_DOWNTREND", "UNKNOWN"}
\* decision_guide: CHART_PRIORITY is treated like BALANCED by both selectors
Policies == {"BALANCED", "NEWS_PRIORITY"}
VolLow == 50
VolMed == 100
NewsOverrideUrgency == 70

\* ENABLED_STRATEGIES
EnabledStrategies == [spot |-> {"multi_indicator", "trailing"}, futures |-> {"long_short"}]

\* the buckets with a volatility of exactly 10% still counted as MED
VolLevel_TenIsMed(volatility) ==
    IF volatility < VolLow THEN "LOW" ELSE IF volatility <= VolMed THEN "MED" ELSE "HIGH"

VolLevel(volatility) ==
    IF volatility < VolLow THEN "LOW" ELSE IF volatility < VolMed THEN "MED" ELSE "HIGH"

\* the v3 table with the strong downtrend treated as a weak one
TableV3_DowntrendDca(prev, regime, volatility) ==
    IF regime \in {"STRONG_DOWNTREND", "WEAK_DOWNTREND"}
    THEN [spot |-> {"dca"}, futures |-> {}]
    ELSE prev

\* the regime x volatility table of v3; a regime it has no branch for leaves
\* self.active_strategies as the previous call left it
TableV3(prev, regime, volatility) ==
    LET vol_level == VolLevel(volatility) IN
    CASE regime = "STRONG_DOWNTREND" -> [spot |-> {}, futures |-> {}]
      [] regime = "WEAK_DOWNTREND" ->
            [spot |-> IF vol_level = "HIGH" THEN {"momentum"}
                      ELSE IF vol_level = "MED" THEN {"multi_indicator"} ELSE {"dca"},
             futures |-> {}]
      [] regime = "SIDEWAYS" ->
            [spot |-> IF vol_level = "HIGH" THEN {"scalping"} ELSE {"grid"},
             futures |-> {"scalping"}]
      [] regime = "WEAK_UPTREND" ->
            [spot |-> IF vol_level = "HIGH" THEN {"momentum", "trailing"}
                      ELSE {"multi_indicator"},
             futures |-> {"long_short"}]
      [] regime = "STRONG_UPTREND" ->
            [spot |-> IF vol_level = "HIGH" THEN {"momentum", "breakout"}
                      ELSE {"multi_indicator", "breakout"},
             futures |-> {"long_short"}]
      [] OTHER -> prev

NewsOverride(policy, urgency) == policy = "NEWS_PRIORITY" /\ urgency >= NewsOverrideUrgency

\* active_strategies after v3 _adjust_strategies
AdjustStrategiesV3(prev, regime, volatility, policy, urgency) ==
    LET table == TableV3(prev, regime, volatility) IN
    IF NewsOverride(policy, urgency)
    THEN [spot |-> IF regime \in {"WEAK_UPTREND", "STRONG_UPTREND"}
                   THEN IF VolLevel(volatility) = "HIGH"
                        THEN {"trailing"} ELSE {"multi_indicator"}
                   ELSE {},
          futures |-> {}]
    ELSE table

\* active_strategies after v1 _adjust_strategies
AdjustStrategiesV1(regime, policy, urgency) ==
    CASE regime = "STRONG_DOWNTREND" -> [spot |-> {}, futures |-> {}]
      [] regime = "WEAK_DOWNTREND" ->
            IF policy = "NEWS_PRIORITY"
            THEN [spot |-> {}, futures |-> {}]
            ELSE [spot |-> {"dca"}, futures |-> {}]
      [] regime = "SIDEWAYS" -> [spot |-> {"grid", "trailing"}, futures |-> {}]
      [] regime = "WEAK_UPTREND" -> [spot |-> {"multi_indicator"}, futures |-> {"long_short"}]
      [] regime = "STRONG_UPTREND" ->
            IF NewsOverride(policy, urgency)
            THEN [spot |-> {"multi_indicator", "trailing", "breakout"},
                  futures |-> {"long_short"}]
            ELSE [spot |-> {"multi_indicator", "trailing"}, futures |-> {"long_short"}]
      [] OTHER -> [spot |-> {"trailing"}, futures |-> {}]

\* arguments of one selector call
SelectorInputs ==
    [regime : Regimes, volatility : {20, VolLow, VolMed}, policy : Policies,
     urgency : {NewsOverrideUrgency - 1, NewsOverrideUrgency}]

\* the analysis fields the v1 selector reads
SelectorInputsV1 ==
    [regime : Regimes, policy : Policies,
     urgency : {NewsOverrideUrgency - 1, NewsOverrideUrgency}]

NoSelection == [made |-> FALSE]

\* SmartMasterController.__init__
SelectorConstructed(probe) ==
    /\ active_strategies = EnabledStrategies
    /\ current_regime = "UNKNOWN"
    /\ decision_guide = "BALANCED"
    /\ news_urgency = 50
    /\ selProbe = probe
    /\ selProbeResult = NoSelection
    /\ selLast = NoSelection

SelectorIdle == SelectorConstructed([regime |-> "UNKNOWN", volatility |-> VolLow,
                                     policy |-> "BALANCED",
                                     urgency |-> NewsOverrideUrgency - 1])

(***************************************************************************)
(* MasterController (v1) after __init__                                    *)
(***************************************************************************)
MaxAiFailures == 3

\* v1Last before any call: op is the last operation, streak the number of
\* failed external attempts since the last success or reset, calls the number
\* of _analyze_market_regime calls so far
NoAnalysis ==
    [op |-> "init", wasAvailable |-> TRUE, attempted |-> FALSE, ai_ok |-> FALSE,
     source |-> "none", streak |-> 0, calls |-> 0]

V1Constructed(enabled) ==
    /\ v1_ai_enabled = enabled
    /\ ai_available = TRUE
    /\ ai_failure_count = 0
    /\ last_debate_set = FALSE
    /\ v1Last = NoAnalysis
    /\ v1_active_strategies = EnabledStrategies
    /\ v1SelLast = NoSelection

V1Idle == V1Constructed(FALSE)

(***************************************************************************)
(* Fusion of the local and the external analysis: _combine_analysis of the *)
(* v1 controller, _merge_results of the v3 controller, and the state       *)
(* update that follows each.  Confidence is in thousandths (950 is 0.95),  *)
(* news urgency in tenths.  A key a result dict does not hold is Absent    *)
(* (numbers) or "absent" (strings).                                        *)
(***************************************************************************)
Absent == 0 - 1

GetNum(v, default) == IF v = Absent THEN default ELSE v
GetStr(v, default) == IF v = "absent" THEN default ELSE v

\* decision_guide as the providers derive it from the average news urgency
DecisionGuide(urgency) ==
    IF urgency >= 70 THEN "NEWS_PRIORITY"
    ELSE IF urgency <= 30 THEN "CHART_PRIORITY" ELSE "BALANCED"

\* what MasterController._technical_analysis returns
TechnicalResultsV1 ==
    {[regime |-> "STRONG_UPTREND", confidence |-> 800, decision_guide |-> "CHART_PRIORITY",
      news_urgency |-> 0],
     [regime |-> "SIDEWAYS", confidence |-> 600, decision_guide |-> "CHART_PRIORITY",
      news_urgency |-> 0]}

\* what SmartMasterController._local_analysis returns: min(abs(score)/5*0.7, 0.7)
\* for scores 3, 5 and 0, and _create_unknown_result for a short chart
LocalResultsV3 ==
    {[regime |-> "STRONG_UPTREND", confidence |-> 420, decision_guide |-> "CHART_PRIORITY",
      news_urgency |-> 0],
     [regime |-> "STRONG_UPTREND", confidence |-> 700, decision_guide |-> "CHART_PRIORITY",
      news_urgency |-> 0],
     [regime |-> "SIDEWAYS", confidence |-> 0, decision_guide |-> "CHART_PRIORITY",
      news_urgency |-> 0],
     [regime |-> "SIDEWAYS", confidence |-> 300, decision_guide |-> "BALANCED",
      news_urgency |-> 0]}

\* external results: complete ones, and ones with the confidence or the news
\* fields missing
ExternalResults ==
    {[regime |-> r, confidence |-> c, news_urgency |-> u,
      decision_guide |-> IF u = Absent THEN "absent" ELSE DecisionGuide(u)] :
        r \in {"STRONG_UPTREND", "SIDEWAYS"}, c \in {500, 700, 900, 1000, Absent},
        u \in {30, 31, 69, 70, 80, Absent}}

\* the boost with its cap left out
BoostConfidence_NoCap(c) == (c * 12) \div 10

\* ai_result['confidence'] * 1.2 capped at 0.95
BoostConfidence(c) == Min((c * 12) \div 10, 950)

\* a KeyError left the fusion or the update
Raised(impl) ==
    [made |-> TRUE, impl |-> impl, raised |-> TRUE, base |-> "none", regime |-> "none",
     confidence |-> Absent, decision_guide |-> "absent", news_urgency |-> Absent,
     conflict |-> FALSE]

Fused(impl, base, regime, confidence, guide, urgency, conflict) ==
    [made |-> TRUE, impl |-> impl, raised |-> FALSE, base |-> base, regime |-> regime,
     confidence |-> confidence, decision_guide |-> guide, news_urgency |-> urgency,
     conflict |-> conflict]

\* MasterController._combine_analysis(ai_result, technical_result): the dict
\* it returns, keys it leaves missing still Absent
CombineAnalysisV1(ai, tech) ==
    LET guide == GetStr(ai.decision_guide, "BALANCED")
        urgency == GetNum(ai.news_urgency, 50)
        annotated(g) == Fused("v1", "local", tech.regime, tech.confidence, g, urgency, FALSE)
    IN  IF guide = "NEWS_PRIORITY"
        THEN Fused("v1", "external", ai.regime, ai.confidence, ai.decision_guide,
                   ai.news_urgency, FALSE)
        ELSE IF guide = "CHART_PRIORITY"
        THEN annotated("CHART_PRIORITY")
        ELSE IF ai.confidence = Absent
        THEN Raised("v1")
        ELSE IF ai.regime = tech.regime
        THEN Fused("v1", "external", ai.regime, BoostConfidence(ai.confidence),
                   ai.decision_guide, ai.news_urgency, FALSE)
        ELSE IF ai.confidence > tech.confidence
        THEN Fused("v1", "external", ai.regime, ai.confidence, ai.decision_guide,
                   ai.news_urgency, FALSE)
        ELSE annotated("BALANCED")

\* MasterController.analyze_and_adjust after _analyze_market_regime: what it
\* stores and returns for the fused dict
UpdateV1(f) ==
    IF f.raised \/ f.confidence = Absent
    THEN Raised("v1")
    ELSE [f EXCEPT !.decision_guide = GetStr(@, "BALANCED"), !.news_urgency = GetNum(@, 50)]

\* SmartMasterController._merge_results(local, ai, 'ai_primary') followed by
\* _adjust_strategies
MergeAiPrimaryV3(local, ai) ==
    Fused("v3_ai_primary", "external", ai.regime, GetNum(ai.confidence, 500),
          GetStr(ai.decision_guide, "BALANCED"), GetNum(ai.news_urgency, 0), FALSE)

\* SmartMasterController._merge_results(local, ai, 'local_primary') followed by
\* _adjust_strategies
MergeLocalPrimaryV3(local, ai) ==
    Fused("v3_local_primary", "local", local.regime,
          IF ai.regime # local.regime THEN (local.confidence * 8) \div 10
          ELSE local.confidence,
          local.decision_guide, GetNum(ai.news_urgency, 0), ai.regime # local.regime)

NoFusion ==
    [made |-> FALSE, impl |-> "none", raised |-> FALSE, base |-> "none", regime |-> "none",
     confidence |-> Absent, decision_guide |-> "absent", news_urgency |-> Absent,
     conflict |-> FALSE]

FusionConstructed(local, external) ==
    /\ fuseLocal = local
    /\ fuseExternal = external
    /\ fuseOut = NoFusion

FusionIdle ==
    FusionConstructed([regime |-> "SIDEWAYS", confidence |-> 600,
                       decision_guide |-> "CHART_PRIORITY", news_urgency |-> 0],
                      [regime |-> "SIDEWAYS", confidence |-> 500, news_urgency |-> 50,
                       decision_guide |-> "BALANCED"])

(***************************************************************************)
(* PortfolioManager: the candidates and the selection analyze_and_allocate *)
(* works from, and the plan it returns.  Both are sequences of             *)
(* [ticker, weight]: the weight of a candidate is its score, the weight of *)
(* a selected item its allocation in thousandths.                          *)
(***************************************************************************)
NoPlan == [made |-> FALSE, failed |-> FALSE, allocations |-> {}]

PlanConstructed(input) ==
    /\ planInput = input
    /\ planOut = NoPlan

PlanIdle == PlanConstructed([external |-> FALSE, candidates |-> <<>>, selected |-> <<>>])

(***************************************************************************)
(* The shared controller called from several threads: main.py runs every   *)
(* analyze_and_adjust call of a worker through asyncio.to_thread on the    *)
(* one module-level controller, with no lock.                              *)
(***************************************************************************)
\* the threads: one spot worker and one futures worker
ControllerCallers == {"spot_worker", "futures_worker"}

NoReturn == [made |-> FALSE]

SharedConstructed ==
    /\ callPc = [w \in ControllerCallers |-> "idle"]
    /\ callAnalysis = [w \in ControllerCallers |->
                          [regime |-> "UNKNOWN", volatility |-> VolLow,
                           policy |-> "BALANCED", urgency |-> NewsOverrideUrgency - 1]]
    /\ callReturned = [w \in ControllerCallers |-> NoReturn]

SharedIdle == SharedConstructed

(***************************************************************************)
(* Initial state: the module-level instance CreditSystem(daily_limit=50)   *)
(* has run __init__, i.e. load_credits on whatever file it found.          *)
(***************************************************************************)
Days == 0..MaxDay
Tods == 0..MaxTod

\* values of the 'used' field a stored file may hold
StoredUsed == {0 - 1, 0, 1, DailyLimit - 1, DailyLimit, DailyLimit + 10}

\* any stored file: absent, unreadable, or a JSON object with or without its fields
FileContents ==
    {NoFile, Corrupt}
    \cup {[kind |-> "ok", hasDate |-> TRUE, date |-> <<d, t>>, hasUsed |-> hu,
           used |-> IF hu THEN u ELSE 0] :
              d \in {0 - 1, 0}, t \in {0}, hu \in BOOLEAN, u \in StoredUsed}
    \cup {[kind |-> "ok", hasDate |-> TRUE, date |-> <<0>>, hasUsed |-> TRUE, used |-> 1]}
    \cup {[kind |-> "ok", hasDate |-> FALSE, date |-> <<>>, hasUsed |-> TRUE, used |-> 1]}

\* a file as save_credits left it on an earlier run
SavedFiles ==
    {NoFile} \cup {SavedRecord([day |-> d, tod |-> 0], u) :
                      d \in {0 - 1, 0}, u \in {0, DailyLimit - 3, DailyLimit - 2, DailyLimit - 1, DailyLimit}}

CallerIds == 1..NumCallers

CallersIdle ==
    /\ pc = [t \in CallerIds |-> "idle"]
    /\ tmp = [t \in CallerIds |-> 0]
    /\ tret = [t \in CallerIds |-> "none"]

\* CreditSystem.__init__ on file f at time dt
LedgerConstructed(f, dt) ==
    /\ now = dt
    /\ used = LoadedUsed(f, dt)
    /\ credit_file = SavedRecord(dt, used)
    /\ lastOp = "init"
    /\ ret = "none"
    /\ spentToday = used
    /\ loaded = f
    /\ nUses = 0

InitLedger ==
    /\ \E f \in SavedFiles : LedgerConstructed(f, [day |-> 0, tod |-> 0])
    /\ CallersIdle
    /\ reqAction = "single_ai"
    /\ startRemaining = GetRemainingOf(used)
    /\ RiskIdle
    /\ CycleIdle
    /\ WorkersIdle
    /\ TriggerIdle
    /\ SelectorIdle
    /\ V1Idle
    /\ FusionIdle
    /\ PlanIdle
    /\ SharedIdle

InitLedgerAnyFile ==
    /\ \E f \in FileContents : LedgerConstructed(f, [day |-> 0, tod |-> 0])
    /\ CallersIdle
    /\ reqAction = "single_ai"
    /\ startRemaining = GetRemainingOf(used)
    /\ RiskIdle
    /\ CycleIdle
    /\ WorkersIdle
    /\ TriggerIdle
    /\ SelectorIdle
    /\ V1Idle
    /\ FusionIdle
    /\ PlanIdle
    /\ SharedIdle

LedgerIdle ==
    /\ LedgerConstructed(NoFile, [day |-> 0, tod |-> 0])
    /\ CallersIdle
    /\ reqAction = "single_ai"
    /\ startRemaining = GetRemainingOf(used)

(***************************************************************************)
(* Ledger operations, each one call run to completion                      *)
(***************************************************************************)
\* load_credits (a restart of the process re-runs it), with its trailing save_credits
load_credits ==
    /\ UNCHANGED notLedger
    /\ used' = LoadedUsed(credit_file, now)
    /\ loaded' = credit_file
    /\ credit_file' = SavedRecord(now, used')
    /\ lastOp' = "load_credits"
    /\ ret' = "none"
    /\ UNCHANGED <<now, spentToday, nUses>>

save_credits ==
    /\ UNCHANGED notLedger
    /\ credit_file' = SavedRecord(now, used)
    /\ lastOp' = "save_credits"
    /\ ret' = "none"
    /\ UNCHANGED <<used, now, spentToday, loaded, nUses>>

get_remaining ==
    /\ UNCHANGED notLedger
    /\ lastOp' = "get_remaining"
    /\ ret' = GetRemainingOf(used)
    /\ UNCHANGED <<used, credit_file, now, spentToday, loaded, nUses>>

can_use(action) ==
    /\ UNCHANGED notLedger
    /\ lastOp' = "can_use"
    /\ ret' = CanUseOf(used, action)
    /\ UNCHANGED <<used, credit_file, now, spentToday, loaded, nUses>>

use_credit(action) ==
    /\ UNCHANGED notLedger
    /\ lastOp' = "use_credit"
    /\ IF ~CanUseOf(used, action)
       THEN /\ ret' = FALSE
            /\ UNCHANGED <<used, credit_file, spentToday, nUses>>
       ELSE /\ nUses < MaxUses
            /\ used' = used + Cost(action)
            /\ credit_file' = SavedRecord(now, used')
            /\ spentToday' = spentToday + Cost(action)
            /\ nUses' = nUses + 1
            /\ ret' = TRUE
    /\ UNCHANGED <<now, loaded>>

\* the wall clock moves on within the day
ClockTick ==
    /\ UNCHANGED notLedger
    /\ now.tod < MaxTod
    /\ now' = [now EXCEPT !.tod = now.tod + 1]
    /\ UNCHANGED <<used, credit_file, lastOp, ret, spentToday, loaded, nUses>>

\* midnight passes while the process keeps running
Midnight ==
    /\ UNCHANGED notLedger
    /\ now.day < MaxDay
    /\ now' = [day |-> now.day + 1, tod |-> 0]
    /\ spentToday' = 0
    /\ lastOp' = "midnight"
    /\ UNCHANGED <<used, credit_file, ret, loaded, nUses>>

NextLedger ==
    \/ load_credits
    \/ save_credits
    \/ get_remaining
    \/ \E a \in Actions : can_use(a)
    \/ \E a \in Actions : use_credit(a)
    \/ ClockTick
    \/ Midnight

\* the ledger started on a file an earlier run saved (or on none)
SpecLedger == InitLedger /\ [][NextLedger]_vars

\* the ledger started on any stored file
SpecLedgerAnyFile == InitLedgerAnyFile /\ [][NextLedger]_vars

(***************************************************************************)
(* Concurrent callers of the shared ledger.  CreditSystem holds no lock,   *)
(* so between the steps of one caller the others may run: the check of     *)
(* use_credit, the read of self.used and the write of self.used are        *)
(* separate steps of `if not self.can_use(action)` / `self.used += cost`.  *)
(***************************************************************************)
InitCallers ==
    /\ \E f \in SavedFiles : LedgerConstructed(f, [day |-> 0, tod |-> 0])
    /\ CallersIdle
    /\ reqAction \in {"single_ai", "debate", "emergency"}
    /\ startRemaining = GetRemainingOf(used)
    /\ RiskIdle
    /\ CycleIdle
    /\ WorkersIdle
    /\ TriggerIdle
    /\ SelectorIdle
    /\ V1Idle
    /\ FusionIdle
    /\ PlanIdle
    /\ SharedIdle

\* ai_select_portfolio: `if not credit_system.can_use(..): return default`
CallerCanUse(t) ==
    /\ pc[t] = "idle"
    /\ IF CanUseOf(used, reqAction)
       THEN /\ pc' = [pc EXCEPT ![t] = "call_use"]
            /\ UNCHANGED tret
       ELSE /\ pc' = [pc EXCEPT ![t] = "done"]
            /\ tret' = [tret EXCEPT ![t] = "fallback"]
    /\ UNCHANGED <<tmp, reqAction, startRemaining, ledgerVars, notCallers>>

\* a caller that calls use_credit without asking can_use first
CallerUseDirect(t) ==
    /\ pc[t] = "idle"
    /\ pc' = [pc EXCEPT ![t] = "call_use"]
    /\ UNCHANGED <<tmp, tret, reqAction, startRemaining, ledgerVars, notCallers>>

\* use_credit: `if not self.can_use(action): return False`
UseCreditCheck(t) ==
    /\ pc[t] = "call_use"
    /\ IF ~CanUseOf(used, reqAction)
       THEN /\ pc' = [pc EXCEPT ![t] = "done"]
            /\ tret' = [tret EXCEPT ![t] = "False"]
       ELSE /\ pc' = [pc EXCEPT ![t] = "use_load"]
            /\ UNCHANGED tret
    /\ UNCHANGED <<tmp, reqAction, startRemaining, ledgerVars, notCallers>>

\* use_credit: `self.used += cost` reads self.used ...
UseCreditLoad(t) ==
    /\ pc[t] = "use_load"
    /\ tmp' = [tmp EXCEPT ![t] = used]
    /\ pc' = [pc EXCEPT ![t] = "use_store"]
    /\ UNCHANGED <<tret, reqAction, startRemaining, ledgerVars, notCallers>>

\* ... and writes it back; save_credits; return True
UseCreditStore(t) ==
    /\ pc[t] = "use_store"
    /\ used' = tmp[t] + Cost(reqAction)
    /\ credit_file' = SavedRecord(now, used')
    /\ spentToday' = spentToday + Cost(reqAction)
    /\ nUses' = nUses + 1
    /\ lastOp' = "use_credit"
    /\ ret' = TRUE
    /\ tret' = [tret EXCEPT ![t] = "True"]
    /\ pc' = [pc EXCEPT ![t] = "done"]
    /\ UNCHANGED <<tmp, reqAction, startRemaining, now, loaded, notCallers>>

NextCallers ==
    \E t \in CallerIds :
        \/ CallerCanUse(t)
        \/ CallerUseDirect(t)
        \/ UseCreditCheck(t)
        \/ UseCreditLoad(t)
        \/ UseCreditStore(t)

SpecCallers == InitCallers /\ [][NextCallers]_vars

Successes == Cardinality({t \in CallerIds : tret[t] = "True"})

(***************************************************************************)
(* Claims about the credit ledger                                          *)
(***************************************************************************)
\* C1: with N concurrent callers each asking for an action of cost C while R
\* credits remain, at most floor(R/C) calls of use_credit return True and the
\* used count never exceeds the daily limit.
C1_NoOverdraw ==
    /\ Successes * Cost(reqAction) <= startRemaining
    /\ used <= DailyLimit

\* C4: after every mutation of the ledger (load_credits, use_credit), whatever
\* the stored file held, 0 <= used <= daily_limit.
C4_UsedWithinLimit ==
    /\ 0 <= used
    /\ used <= DailyLimit

IsAccess == lastOp \in {"can_use", "use_credit", "get_remaining"}

\* C5: once the calendar date has advanced, a ledger access (can_use,
\* use_credit, get_remaining) works on a used count that holds only the credits
\* spent on the current date, in memory and in the persisted record.
C5_ResetAfterMidnight ==
    IsAccess =>
        /\ used = spentToday
        /\ (DateOf(FromIsoFormat(credit_file.date)) = DateOf(now)
               => credit_file.used = spentToday)

\* C6: a restart (load_credits reading what save_credits wrote) on the calendar
\* date of the save restores exactly the saved used count; loading a record
\* whose stored date is not today sets used to 0.
C6_RestartRestores ==
    (lastOp \in {"init", "load_credits"} /\ loaded.kind = "ok") =>
        LET stored == IF loaded.hasDate THEN loaded.date ELSE DefaultDate
        IN  /\ (stored[1] = now.day /\ loaded.hasUsed) => used = loaded.used
            /\ stored[1] # now.day => used = 0

\* a restart later on the day of the save, after credits were spent
C6_Witness ==
    /\ lastOp = "load_credits"
    /\ loaded.kind = "ok"
    /\ loaded.date = <<now.day, 0>>
    /\ now.tod > 0
    /\ nUses > 0
    /\ used = loaded.used
    /\ used > 0

\* a restart on a later day than the save
C6_WitnessStale ==
    /\ lastOp = "load_credits"
    /\ loaded.kind = "ok"
    /\ loaded.date[1] < now.day
    /\ loaded.used > 0
    /\ used = 0

(***************************************************************************)
(* GlobalRiskManager operations                                            *)
(***************************************************************************)
\* mutant: emergency_stop() forgets to clear self.trading_enabled
LatchAfterStop_NoLatch(enabled) == enabled

\* emergency_stop(reason): self.trading_enabled afterwards
LatchAfterStop(enabled) == FALSE

\* check_risk_limits with the call of emergency_stop left out
ApplyEmergencyStop_Never(f) == UNCHANGED <<trading_enabled, emergency_stop_reason>>

\* the state change of check_risk_limits: `if emergency_stop: self.emergency_stop(stop_reason)`
ApplyEmergencyStop(f) ==
    IF f.emergency_stop /\ trading_enabled
    THEN /\ trading_enabled' = LatchAfterStop(trading_enabled)
         /\ emergency_stop_reason' = f.reason
    ELSE UNCHANGED <<trading_enabled, emergency_stop_reason>>

\* the dict check_risk_limits returns
CheckResult(f, enabledAfter) ==
    [trading_allowed |-> enabledAfter /\ ~f.emergency_stop,
     warnings        |-> f.warnings,
     emergency_stop  |-> f.emergency_stop,
     reason          |-> f.reason]

check_risk_limits ==
    /\ ApplyEmergencyStop(RiskFindings)
    /\ riskResult' = CheckResult(RiskFindings, trading_enabled')
    /\ riskOp' = "check_risk_limits"
    /\ breachSeen' = (breachSeen \/ RiskFindings.emergency_stop)
    /\ UNCHANGED <<consecutive_losses, max_drawdown, daily_loss_percent, daily_pnl,
                   daily_trades, positions, nTrades>>
    /\ UNCHANGED notRisk

\* the tuple can_open_position returns, as a record
OpenAnswer(ok, reason) ==
    [trading_allowed |-> ok, warnings |-> {}, emergency_stop |-> FALSE, reason |-> reason]

can_open_position(exchange) ==
    /\ riskOp' = "can_open_position"
    /\ IF ~trading_enabled
       THEN /\ riskResult' = OpenAnswer(FALSE, emergency_stop_reason)
            /\ UNCHANGED <<trading_enabled, emergency_stop_reason, breachSeen>>
       ELSE /\ ApplyEmergencyStop(RiskFindings)
            /\ breachSeen' = (breachSeen \/ RiskFindings.emergency_stop)
            /\ LET risk_check == CheckResult(RiskFindings, trading_enabled')
                   ps == CheckPositionLimits(positions)
                   tr == CheckTradeLimits(daily_trades)
               IN  riskResult' =
                     IF ~risk_check.trading_allowed THEN OpenAnswer(FALSE, risk_check.reason)
                     ELSE IF exchange = "spot" /\ ps.spot_exceeded
                          THEN OpenAnswer(FALSE, "spot_positions")
                     ELSE IF exchange = "futures" /\ ps.futures_exceeded
                          THEN OpenAnswer(FALSE, "futures_positions")
                     ELSE IF exchange = "spot" /\ tr.spot_exceeded
                          THEN OpenAnswer(FALSE, "spot_trades")
                     ELSE IF exchange = "futures" /\ tr.futures_exceeded
                          THEN OpenAnswer(FALSE, "futures_trades")
                     ELSE OpenAnswer(TRUE, "OK")
    /\ UNCHANGED <<consecutive_losses, max_drawdown, daily_loss_percent, daily_pnl,
                   daily_trades, positions, nTrades>>
    /\ UNCHANGED notRisk

resume_trading ==
    /\ trading_enabled' = TRUE
    /\ emergency_stop_reason' = "None"
    /\ riskOp' = "resume_trading"
    /\ riskResult' = NoResult
    /\ breachSeen' = FALSE
    /\ UNCHANGED <<consecutive_losses, max_drawdown, daily_loss_percent, daily_pnl,
                   daily_trades, positions, nTrades>>
    /\ UNCHANGED notRisk

\* StateManager.record_trade(exchange, pnl, is_win)
record_trade(exchange, pnl, is_win) ==
    /\ nTrades < MaxTrades
    /\ nTrades' = nTrades + 1
    /\ daily_trades' = [daily_trades EXCEPT ![exchange] = @ + 1]
    /\ daily_pnl' = [daily_pnl EXCEPT ![exchange] = @ + pnl]
    /\ consecutive_losses' = IF is_win THEN 0 ELSE consecutive_losses + 1
    /\ daily_loss_percent' = daily_pnl'["spot"] + daily_pnl'["futures"]
    /\ riskOp' = "record_trade"
    /\ riskResult' = NoResult
    /\ UNCHANGED <<trading_enabled, emergency_stop_reason, max_drawdown, positions, breachSeen>>
    /\ UNCHANGED notRisk

\* StateManager.reset_daily_stats
reset_daily_stats ==
    /\ daily_trades' = [e \in Exchanges |-> 0]
    /\ daily_pnl' = [e \in Exchanges |-> 0]
    /\ daily_loss_percent' = 0
    /\ riskOp' = "reset_daily_stats"
    /\ riskResult' = NoResult
    /\ UNCHANGED <<trading_enabled, emergency_stop_reason, consecutive_losses, max_drawdown,
                   positions, breachSeen, nTrades>>
    /\ UNCHANGED notRisk

\* StateManager.update_risk(max_drawdown)
update_risk(dd) ==
    /\ max_drawdown' = Max(max_drawdown, dd)
    /\ riskOp' = "update_risk"
    /\ riskResult' = NoResult
    /\ UNCHANGED <<trading_enabled, emergency_stop_reason, consecutive_losses,
                   daily_loss_percent, daily_pnl, daily_trades, positions, breachSeen, nTrades>>
    /\ UNCHANGED notRisk

\* StateManager.update_position(exchange, coin, position_data); None closes
update_position(exchange, coin, open) ==
    /\ positions' = [positions EXCEPT ![exchange] =
                        IF open THEN @ \cup {coin} ELSE @ \ {coin}]
    /\ riskOp' = "update_position"
    /\ riskResult' = NoResult
    /\ UNCHANGED <<trading_enabled, emergency_stop_reason, consecutive_losses, max_drawdown,
                   daily_loss_percent, daily_pnl, daily_trades, breachSeen, nTrades>>
    /\ UNCHANGED notRisk

InitRisk ==
    /\ \E r \in RestoredStates : RiskConstructed(r)
    /\ LedgerIdle
    /\ CycleIdle
    /\ WorkersIdle
    /\ TriggerIdle
    /\ SelectorIdle
    /\ V1Idle
    /\ FusionIdle
    /\ PlanIdle
    /\ SharedIdle

NextRisk ==
    \/ check_risk_limits
    \/ \E e \in Exchanges : can_open_position(e)
    \/ resume_trading
    \/ \E e \in Exchanges, p \in PnlValues : record_trade(e, p, p > 0)
    \/ reset_daily_stats
    \/ \E dd \in DrawdownValues : update_risk(dd)
    \/ \E e \in Exchanges : \E c \in Coins[e], o \in BOOLEAN : update_position(e, c, o)

SpecRisk == InitRisk /\ [][NextRisk]_vars

(***************************************************************************)
(* Claims about the risk gate                                              *)
(***************************************************************************)
HardBreach == RiskFindings.emergency_stop

\* C2: once check_risk_limits has found a hard breach, the latch is set and
\* every later check_risk_limits / can_open_position answers not-allowed, also
\* after the breaching statistic is back under its limit, until resume_trading.
C2_StickyLatch ==
    breachSeen =>
        /\ ~trading_enabled
        /\ (riskOp \in {"check_risk_limits", "can_open_position"}
               => ~riskResult.trading_allowed)

\* the breach is gone (losses reset, loss and drawdown under their limits) and
\* a later check still refuses
C2_Witness ==
    /\ breachSeen
    /\ ~HardBreach
    /\ consecutive_losses = 0
    /\ riskOp = "check_risk_limits"
    /\ ~riskResult.trading_allowed

\* ... and so does can_open_position
C2_WitnessOpen ==
    /\ breachSeen
    /\ ~HardBreach
    /\ riskOp = "can_open_position"
    /\ ~riskResult.trading_allowed

\* C21: a check_risk_limits result with trading_allowed = False carries a
\* reason, on the check that finds the breach and on every later check while
\* the latch is set; a breach of consecutive losses alone is named as such.
C21_RefusalCarriesReason ==
    (riskOp = "check_risk_limits" /\ ~riskResult.trading_allowed) =>
        /\ riskResult.reason # "None"
        /\ (CheckConsecutiveLosses(consecutive_losses).exceeded
              /\ ~CheckDailyLoss(daily_loss_percent).exceeded
              /\ ~CheckAccountDrawdown(max_drawdown).exceeded)
              => riskResult.reason = "consecutive_losses"

(***************************************************************************)
(* One worker cycle through the shared controller:                         *)
(* SmartMasterController.analyze_and_adjust, with AICallTrigger            *)
(* .should_call_ai and _ai_debate.  Time is counted in minutes.            *)
(***************************************************************************)
CallThreshold == 50
MinIntervalMinutes == 3
CacheSeconds == 600
SecondsPerDay == 86400

\* total trigger score of a call, in tenths of a point: just under and at the
\* call threshold
Scores == {CallThreshold * 10 - 1, CallThreshold * 10}

\* what _local_analysis returns: _create_unknown_result for a short chart, or
\* the technical regime with the measured volatility
LocalAnalyses ==
    {[regime |-> "SIDEWAYS", volatility |-> VolLow, policy |-> "BALANCED", urgency |-> 0],
     [regime |-> "STRONG_UPTREND", volatility |-> 120, policy |-> "CHART_PRIORITY",
      urgency |-> 0]}

\* the consensus a successful debate returns (_aggregate_results): an average
\* urgency of 7.0 or more makes its decision_guide NEWS_PRIORITY
DebateAnalysis == [regime |-> "STRONG_UPTREND", policy |-> "NEWS_PRIORITY", urgency |-> 80]

\* _merge_results(local, ai, 'ai_primary') and (local, ai, 'local_primary')
MergeAiPrimary(local) ==
    [regime |-> DebateAnalysis.regime, volatility |-> local.volatility,
     policy |-> DebateAnalysis.policy, urgency |-> DebateAnalysis.urgency]
MergeLocalPrimary(local) == [local EXCEPT !.urgency = DebateAnalysis.urgency]

\* what debate_system.analyze does: fewer than two AI clients (returns None
\* before any request), a failed debate, a result, a result flagged emergency
DebateResults == {"unavailable", "failed", "ok", "ok_emergency"}

\* timedelta.seconds of (t2 - t1)
ElapsedSeconds(t1, t2) == ((t2 - t1) * 60) % SecondsPerDay

\* the cooldown gate with the interval check left out
ShouldCallAi_NoCooldown(last, t, score, emergency) ==
    IF score >= CallThreshold * 10
    THEN [raised |-> (last = NoTime), blocked |-> FALSE, should_call |-> TRUE,
          last_ai_call |-> t, counted |-> 1, prevented |-> 0]
    ELSE [raised |-> FALSE, blocked |-> FALSE, should_call |-> FALSE,
          last_ai_call |-> last, counted |-> 0, prevented |-> 1]

\* the decision of line 147 with the comparison made strict
ShouldCallAi_Strict(last, t, score, emergency) ==
    IF last # NoTime /\ t - last < MinIntervalMinutes /\ ~emergency
    THEN [raised |-> FALSE, blocked |-> TRUE, should_call |-> FALSE, last_ai_call |-> last,
          counted |-> 0, prevented |-> 1]
    ELSE IF score > CallThreshold * 10
         THEN [raised |-> (last = NoTime), blocked |-> FALSE, should_call |-> TRUE,
               last_ai_call |-> t, counted |-> 1, prevented |-> 0]
         ELSE [raised |-> FALSE, blocked |-> FALSE, should_call |-> FALSE,
               last_ai_call |-> last, counted |-> 0, prevented |-> 1]

\* AICallTrigger.should_call_ai: what it returns and what it leaves in
\* last_ai_call.  `elapsed` is bound only when last_ai_call was set on entry,
\* and the result dict reads it whenever last_ai_call is set on exit.
ShouldCallAi(last, t, score, emergency) ==
    IF last # NoTime /\ t - last < MinIntervalMinutes /\ ~emergency
    THEN [raised |-> FALSE, blocked |-> TRUE, should_call |-> FALSE, last_ai_call |-> last,
          counted |-> 0, prevented |-> 1]
    ELSE IF score >= CallThreshold * 10
         THEN [raised |-> (last = NoTime), blocked |-> FALSE, should_call |-> TRUE,
               last_ai_call |-> t, counted |-> 1, prevented |-> 0]
         ELSE [raised |-> FALSE, blocked |-> FALSE, should_call |-> FALSE,
               last_ai_call |-> last, counted |-> 0, prevented |-> 1]

\* SmartMasterController._adjust_strategies(analysis)
AdjustStrategies(an) ==
    /\ active_strategies' = AdjustStrategiesV3(active_strategies, an.regime, an.volatility,
                                                an.policy, an.urgency)
    /\ current_regime' = an.regime
    /\ decision_guide' = an.policy
    /\ news_urgency' = an.urgency
    /\ selLast' = [made |-> TRUE, analysis |-> an]
    /\ selProbeResult' = IF an = selProbe /\ ~selProbeResult.made
                         THEN [made |-> TRUE, strategies |-> active_strategies']
                         ELSE selProbeResult
    /\ UNCHANGED selProbe

\* the steps of analyze_and_adjust after a passed risk check
CycleAfterRisk(score, emergency, debate, local) ==
    IF ~ai_enabled
    THEN /\ cycleTrace' = <<"risk_check", "local_analysis", "strategy_select">>
         /\ cycleOutcome' = "local"
         /\ AdjustStrategies(local)
         /\ UNCHANGED <<last_ai_call, trigger_call_count, prevented_calls, ai_call_count,
                        last_ai_time>>
    ELSE LET t == ShouldCallAi(last_ai_call, minute, score, emergency) IN
         /\ last_ai_call' = t.last_ai_call
         /\ trigger_call_count' = trigger_call_count + t.counted
         /\ prevented_calls' = prevented_calls + t.prevented
         /\ IF t.raised \/ t.blocked
            THEN \* UnboundLocalError leaves should_call_ai, or the log line reads
                 \* trigger_result['threshold'] of a blocked decision: KeyError
                 /\ cycleTrace' = <<"risk_check", "local_analysis", "trigger_score">>
                 /\ cycleOutcome' = "raised"
                 /\ UNCHANGED <<ai_call_count, last_ai_time, selectorVars>>
            ELSE IF t.should_call
            THEN IF debate \in {"ok", "ok_emergency"}
                 THEN /\ ai_call_count' = ai_call_count + 1
                      /\ last_ai_time' = minute
                      /\ IF debate = "ok_emergency"
                         THEN /\ cycleTrace' = <<"risk_check", "local_analysis", "trigger_score",
                                                 "external_call", "fusion">>
                              /\ cycleOutcome' = "emergency"
                              /\ UNCHANGED selectorVars
                         ELSE /\ cycleTrace' = <<"risk_check", "local_analysis", "trigger_score",
                                                 "external_call", "fusion", "strategy_select">>
                              /\ cycleOutcome' = "ai"
                              /\ AdjustStrategies(MergeAiPrimary(local))
                 ELSE /\ cycleTrace' =
                            IF debate = "failed"
                            THEN <<"risk_check", "local_analysis", "trigger_score",
                                   "external_call", "strategy_select">>
                            ELSE <<"risk_check", "local_analysis", "trigger_score",
                                   "strategy_select">>
                      /\ cycleOutcome' = "local"
                      /\ AdjustStrategies(local)
                      /\ UNCHANGED <<ai_call_count, last_ai_time>>
            ELSE /\ IF last_ai_time # NoTime
                       /\ ElapsedSeconds(last_ai_time, minute) < CacheSeconds
                    THEN /\ cycleTrace' = <<"risk_check", "local_analysis", "trigger_score",
                                            "fusion", "strategy_select">>
                         /\ cycleOutcome' = "local_with_ai_context"
                         /\ AdjustStrategies(MergeLocalPrimary(local))
                    ELSE /\ cycleTrace' = <<"risk_check", "local_analysis", "trigger_score",
                                            "strategy_select">>
                         /\ cycleOutcome' = "local"
                         /\ AdjustStrategies(local)
                 /\ UNCHANGED <<ai_call_count, last_ai_time>>

\* SmartMasterController.analyze_and_adjust(market_data, news_data, position_data)
analyze_and_adjust(score, emergency, debate, local) ==
    /\ analysis_count < MaxCycles
    /\ analysis_count' = analysis_count + 1
    /\ ApplyEmergencyStop(RiskFindings)
    /\ riskResult' = CheckResult(RiskFindings, trading_enabled')
    /\ riskOp' = "check_risk_limits"
    /\ breachSeen' = (breachSeen \/ RiskFindings.emergency_stop)
    /\ IF ~riskResult'.trading_allowed
       THEN /\ cycleTrace' = <<"risk_check">>
            /\ cycleOutcome' = "blocked"
            /\ UNCHANGED <<last_ai_call, trigger_call_count, prevented_calls, ai_call_count,
                           last_ai_time, selectorVars>>
       ELSE CycleAfterRisk(score, emergency, debate, local)
    /\ UNCHANGED <<ai_enabled, minute>>
    /\ UNCHANGED <<consecutive_losses, max_drawdown, daily_loss_percent, daily_pnl,
                   daily_trades, positions, nTrades>>
    /\ UNCHANGED notCycle

\* time passing between two cycles
TimePasses(d) ==
    /\ minute + d <= MaxMinute
    /\ minute' = minute + d
    /\ UNCHANGED <<ai_enabled, analysis_count, ai_call_count, last_ai_time, last_ai_call,
                   trigger_call_count, prevented_calls, cycleTrace, cycleOutcome>>
    /\ UNCHANGED <<riskVars, selectorVars>>
    /\ UNCHANGED notCycle

\* a trader closing a position with a loss or a profit between two cycles
TradeClosed(pnl) ==
    /\ nTrades < MaxTrades
    /\ nTrades' = nTrades + 1
    /\ daily_trades' = [daily_trades EXCEPT !["spot"] = @ + 1]
    /\ daily_pnl' = [daily_pnl EXCEPT !["spot"] = @ + pnl]
    /\ consecutive_losses' = IF pnl > 0 THEN 0 ELSE consecutive_losses + 1
    /\ daily_loss_percent' = daily_pnl'["spot"] + daily_pnl'["futures"]
    /\ riskOp' = "record_trade"
    /\ riskResult' = NoResult
    /\ UNCHANGED <<trading_enabled, emergency_stop_reason, max_drawdown, positions, breachSeen>>
    /\ UNCHANGED <<cycleVars, selectorVars>>
    /\ UNCHANGED notCycle

\* ledgers an earlier run left: untouched, and fully spent today
CycleLedgerFiles ==
    {SavedRecord([day |-> 0, tod |-> 0], u) : u \in {0, DailyLimit - 1, DailyLimit}}

InitCycle ==
    /\ \E f \in CycleLedgerFiles : LedgerConstructed(f, [day |-> 0, tod |-> 0])
    /\ CallersIdle
    /\ reqAction = "debate"
    /\ startRemaining = GetRemainingOf(used)
    /\ \E r \in RestoredStates : RiskConstructed(r)
    /\ \E e \in BOOLEAN : CycleConstructed(e)
    /\ WorkersIdle
    /\ TriggerIdle
    /\ SelectorIdle
    /\ V1Idle
    /\ FusionIdle
    /\ PlanIdle
    /\ SharedIdle

NextCycle ==
    \/ \E sc \in Scores, em \in BOOLEAN, db \in DebateResults, lc \in LocalAnalyses :
          analyze_and_adjust(sc, em, db, lc)
    \/ \E d \in {MinIntervalMinutes, 10} : TimePasses(d)
    \/ \E p \in PnlValues : TradeClosed(p)

SpecCycle == InitCycle /\ [][NextCycle]_vars

\* C23: a cycle that has no external result (provider disabled, failed, not
\* triggered and nothing fresh cached) decides by the local analysis alone, and
\* its decision_guide is CHART_PRIORITY, short or missing history included.
C23_NoExternalIsLocalChartPriority ==
    cycleOutcome = "local" =>
        /\ selLast.made
        /\ selLast.analysis \in LocalAnalyses
        /\ current_regime = selLast.analysis.regime
        /\ decision_guide = "CHART_PRIORITY"

(***************************************************************************)
(* The cached debate result over long waits: the controller with the       *)
(* provider enabled, cycles minutes apart and once a whole day apart.      *)
(***************************************************************************)
MinutesPerDay == SecondsPerDay \div 60

\* a day passing between two cycles
DayPasses ==
    /\ minute < MinutesPerDay
    /\ minute' = minute + MinutesPerDay
    /\ UNCHANGED <<ai_enabled, analysis_count, ai_call_count, last_ai_time, last_ai_call,
                   trigger_call_count, prevented_calls, cycleTrace, cycleOutcome>>
    /\ UNCHANGED <<riskVars, selectorVars>>
    /\ UNCHANGED notCycle

\* minutes passing, on the first day or the next
MinutesPass(d) ==
    /\ (minute % MinutesPerDay) + d <= MaxMinute
    /\ minute' = minute + d
    /\ UNCHANGED <<ai_enabled, analysis_count, ai_call_count, last_ai_time, last_ai_call,
                   trigger_call_count, prevented_calls, cycleTrace, cycleOutcome>>
    /\ UNCHANGED <<riskVars, selectorVars>>
    /\ UNCHANGED notCycle

InitCache ==
    /\ LedgerConstructed(SavedRecord([day |-> 0, tod |-> 0], 0), [day |-> 0, tod |-> 0])
    /\ CallersIdle
    /\ reqAction = "debate"
    /\ startRemaining = GetRemainingOf(used)
    /\ RiskIdle
    /\ CycleConstructed(TRUE)
    /\ WorkersIdle
    /\ TriggerIdle
    /\ SelectorIdle
    /\ V1Idle
    /\ FusionIdle
    /\ PlanIdle
    /\ SharedIdle

NextCache ==
    \/ \E sc \in Scores, em \in BOOLEAN, db \in DebateResults, lc \in LocalAnalyses :
          analyze_and_adjust(sc, em, db, lc)
    \/ \E d \in {1, MinIntervalMinutes, 5} : MinutesPass(d)
    \/ DayPasses

SpecCache == InitCache /\ [][NextCache]_vars

\* C24: a cycle takes the cached debate result as context only when that
\* result is at most 10 minutes old; once it is older, by minutes or by more than
\* a day, the cycle decides from the local analysis only.
C24_StaleCacheNotUsed ==
    [][(analysis_count' = analysis_count + 1 /\ cycleOutcome' = "local_with_ai_context")
          => /\ last_ai_time # NoTime
             /\ (minute - last_ai_time) * 60 <= CacheSeconds]_vars

(***************************************************************************)
(* AICallTrigger on its own: the sub-scores as a function of the inputs,   *)
(* and should_call_ai called again and again on one instance.              *)
(***************************************************************************)
\* lines 111-140 of should_call_ai: the five checkers on one input
ComputeScores ==
    /\ ~trigSubs.computed
    /\ trigSubs' = SubScores(trigInput)
    /\ UNCHANGED <<trigInput, trigDecision>>
    /\ UNCHANGED <<ledgerVars, callerVars, riskVars, cycleVars, workerVars, selectorVars,
                   v1Vars, fusionVars, planVars, sharedVars>>

InitScore ==
    /\ LedgerIdle
    /\ RiskIdle
    /\ CycleIdle
    /\ WorkersIdle
    /\ SelectorIdle
    /\ V1Idle
    /\ FusionIdle
    /\ PlanIdle
    /\ SharedIdle
    /\ trigInput \in TriggerInputs
    /\ trigSubs = NoSubs
    /\ trigDecision = NoDecision

NextScore == ComputeScores

SpecScore == InitScore /\ [][NextScore]_vars

\* the market, news and position data should_call_ai is called with
TriggerScenarios ==
    {QuietInput,
     [QuietInput EXCEPT !.change_5m = 60],
     [QuietInput EXCEPT !.change_5m = 60, !.volatility = 100],
     [QuietInput EXCEPT !.change_5m = 60, !.volume_ratio = 40],
     [QuietInput EXCEPT !.change_5m = 0 - 60],
     [QuietInput EXCEPT !.change_5m = 0 - 60, !.volume_ratio = 40],
     [QuietInput EXCEPT !.has_news = TRUE, !.urgency = 95, !.emergency = TRUE]}

\* AICallTrigger.should_call_ai(market_data, news_data, position_data)
should_call_ai(inp) ==
    LET subs == SubScores(inp)
        r == ShouldCallAi(last_ai_call, minute, TotalScore(subs), IsEmergency(inp))
    IN  /\ trigger_call_count + prevented_calls < MaxTriggerCalls
        /\ last_ai_call' = r.last_ai_call
        /\ trigger_call_count' = trigger_call_count + r.counted
        /\ prevented_calls' = prevented_calls + r.prevented
        /\ trigInput' = inp
        /\ trigSubs' = IF r.blocked THEN NoSubs ELSE subs
        /\ trigDecision' =
              [made |-> TRUE, raised |-> r.raised, blocked |-> r.blocked,
               should_call |-> r.should_call,
               score |-> IF r.blocked THEN 0 ELSE TotalScore(subs),
               emergency |-> IsEmergency(inp), t |-> minute,
               prev_last |-> last_ai_call, prev_count |-> trigger_call_count,
               stampReturned |-> IF r.should_call THEN ~r.raised
                                 ELSE trigDecision.stampReturned,
               afterReturned |-> trigDecision.stampReturned,
               urgency |-> IF r.raised THEN "none"
                           ELSE IF r.blocked THEN "blocked"
                           ELSE DetermineUrgency(TotalScore(subs), subs),
               has_threshold |-> ~r.raised /\ ~r.blocked]
        /\ UNCHANGED <<ai_enabled, analysis_count, ai_call_count, last_ai_time, minute,
                       cycleTrace, cycleOutcome>>
        /\ UNCHANGED <<ledgerVars, callerVars, riskVars, workerVars, selectorVars, v1Vars, fusionVars, planVars, sharedVars>>

InitTrigger ==
    /\ LedgerIdle
    /\ RiskIdle
    /\ CycleIdle
    /\ WorkersIdle
    /\ TriggerIdle
    /\ SelectorIdle
    /\ V1Idle
    /\ FusionIdle
    /\ PlanIdle
    /\ SharedIdle

NextTrigger ==
    \/ \E inp \in TriggerScenarios : should_call_ai(inp)
    \/ \E d \in {1, MinIntervalMinutes} : TimePasses(d)

SpecTrigger == InitTrigger /\ [][NextTrigger]_vars

(***************************************************************************)
(* Claims about the call trigger                                           *)
(***************************************************************************)
\* the last call was made inside the cooldown that an earlier recommendation started
InCooldown ==
    /\ trigDecision.made
    /\ trigDecision.prev_last # NoTime
    /\ trigDecision.t - trigDecision.prev_last < MinIntervalMinutes

\* C11: a should_call_ai call made less than the minimum interval (3 minutes,
\* 180 s) after a recommendation answers should_call = False, unless the news
\* carries the emergency tag or the 5-row price change is -5% or lower.
C11_CooldownBlocks ==
    (InCooldown /\ ~trigDecision.emergency) =>
        /\ trigDecision.blocked
        /\ ~trigDecision.should_call
        /\ ~trigDecision.raised
        /\ trigDecision.score = 0

\* two minutes after a recommendation that was returned, an input scoring at
\* the threshold with no emergency in it is refused
C11_Witness ==
    /\ InCooldown
    /\ trigDecision.afterReturned
    /\ trigDecision.t - trigDecision.prev_last = MinIntervalMinutes - 1
    /\ ~trigDecision.emergency
    /\ TotalScore(SubScores(trigInput)) >= CallThreshold * 10
    /\ trigDecision.blocked

\* C12: whenever the news carries the emergency tag or the 5-row price change
\* is -5% or lower, should_call_ai returns should_call = True, whatever the
\* total score and the cooldown.
C12_EmergencyAlwaysCalls ==
    (trigDecision.made /\ trigDecision.emergency) => trigDecision.should_call

\* C13: should_call_ai leaves last_ai_call and ai_call_count (of the trigger)
\* as they were.
C13_ScorerOnlyRecommends ==
    trigDecision.made =>
        /\ last_ai_call = trigDecision.prev_last
        /\ trigger_call_count = trigDecision.prev_count

\* C14: the total score is >= 0 and each sub-score is at most its documented
\* cap: 5-minute price 30, 1-hour price 25, volume surge 20, range volatility
\* 15, RSI oversold 12.5, RSI overbought 15, news urgency 40, news count 15,
\* position risk 20.
C14_SubScoresWithinCaps ==
    trigSubs.computed =>
        /\ TotalScore(trigSubs) >= 0
        /\ trigSubs.price_5m <= 300
        /\ trigSubs.price_1h <= 250
        /\ trigSubs.volume <= 200
        /\ trigSubs.volatility <= 150
        /\ trigSubs.rsi_oversold <= 125
        /\ trigSubs.rsi_overbought <= 150
        /\ trigSubs.news_urgency <= 400
        /\ trigSubs.news_count <= 150
        /\ trigSubs.position_risk <= 200

\* a 5-minute move of +6.0% and nothing else
LoneMove == [QuietInput EXCEPT !.change_5m = 60]

C15_WitnessLoneMove ==
    /\ trigDecision.made
    /\ ~trigDecision.blocked
    /\ trigInput = LoneMove
    /\ trigDecision.score = 300
    /\ ~trigDecision.should_call

(***************************************************************************)
(* MasterController (v1): _analyze_market_regime and reset_ai              *)
(***************************************************************************)
\* the failure counter with a success leaving it as it is
FailureCountAfter_NoReset(count, ok) == IF ok THEN count ELSE count + 1

\* self.ai_failure_count after an attempt that returned a result (ok) or None
FailureCountAfter(count, ok) == IF ok THEN 0 ELSE count + 1

\* MasterController._analyze_market_regime(market_data, include_news):
\* debate_due is should_run_debate's 30-minute test, ai_ok whether the debate
\* or the quick analysis returned a result, tech_ok whether the technical
\* analysis did
analyze_market_regime(debate_due, ai_ok, tech_ok) ==
    LET attempted == v1_ai_enabled /\ ai_available
        debate == attempted /\ (~last_debate_set \/ debate_due)
        count == FailureCountAfter(ai_failure_count, ai_ok)
    IN  /\ v1Last.calls < MaxV1Calls
        /\ last_debate_set' = (last_debate_set \/ debate)
        /\ ai_failure_count' = IF attempted THEN count ELSE ai_failure_count
        /\ ai_available' = IF attempted /\ ~ai_ok /\ count >= MaxAiFailures
                           THEN FALSE ELSE ai_available
        /\ v1Last' =
              [op |-> "analyze", wasAvailable |-> ai_available, attempted |-> attempted,
               ai_ok |-> attempted /\ ai_ok,
               source |-> IF attempted /\ ai_ok /\ tech_ok THEN "combined"
                          ELSE IF tech_ok THEN "technical" ELSE "none",
               streak |-> IF ~attempted THEN v1Last.streak
                          ELSE IF ai_ok THEN 0 ELSE v1Last.streak + 1,
               calls |-> v1Last.calls + 1]
        /\ UNCHANGED <<v1_ai_enabled, v1_active_strategies, v1SelLast>>
        /\ UNCHANGED <<ledgerVars, callerVars, riskVars, cycleVars, workerVars, triggerVars,
                       selectorVars, fusionVars, planVars, sharedVars>>

\* MasterController.reset_ai()
reset_ai ==
    /\ ai_available' = TRUE
    /\ ai_failure_count' = 0
    /\ v1Last' = [v1Last EXCEPT !.op = "reset_ai", !.attempted = FALSE, !.ai_ok = FALSE,
                                !.wasAvailable = ai_available, !.streak = 0]
    /\ UNCHANGED <<v1_ai_enabled, last_debate_set, v1_active_strategies, v1SelLast>>
    /\ UNCHANGED <<ledgerVars, callerVars, riskVars, cycleVars, workerVars, triggerVars,
                   selectorVars, fusionVars, planVars, sharedVars>>

InitV1 ==
    /\ LedgerIdle
    /\ RiskIdle
    /\ CycleIdle
    /\ WorkersIdle
    /\ TriggerIdle
    /\ SelectorIdle
    /\ \E e \in BOOLEAN : V1Constructed(e)
    /\ FusionIdle
    /\ PlanIdle
    /\ SharedIdle

NextV1 ==
    \/ \E due \in BOOLEAN, ok \in BOOLEAN, tech \in BOOLEAN : analyze_market_regime(due, ok, tech)
    \/ reset_ai

SpecV1 == InitV1 /\ [][NextV1]_vars

\* C16: the provider is unavailable exactly when the last three external
\* attempts since the latest success or reset all failed (a success puts the
\* count back to 0); a cycle that finds it unavailable makes no external
\* attempt and returns the technical result (or the 'none' default when there
\* is none); reset_ai makes it available again with the count at 0.
C16_UnavailableAfterThreeFailures ==
    /\ ai_failure_count = v1Last.streak
    /\ ai_available = (v1Last.streak < 3)
    /\ (v1Last.op = "analyze" /\ ~v1Last.wasAvailable) =>
          /\ ~v1Last.attempted
          /\ v1Last.source \in {"technical", "none"}
          /\ ~ai_available
    /\ v1Last.op = "reset_ai" => (ai_available /\ ai_failure_count = 0)

\* three failures in a row made the provider unavailable, and the cycle after
\* that used the technical result without an attempt
C16_Witness ==
    /\ ~ai_available
    /\ ai_failure_count = 3
    /\ v1Last.op = "analyze"
    /\ ~v1Last.wasAvailable
    /\ ~v1Last.attempted
    /\ v1Last.source = "technical"

\* reset_ai brought an unavailable provider back
C16_WitnessReset ==
    /\ v1Last.op = "reset_ai"
    /\ ~v1Last.wasAvailable
    /\ ai_available
    /\ ai_failure_count = 0

(***************************************************************************)
(* The strategy selectors on their own: _adjust_strategies of the v3 and   *)
(* of the v1 controller called again and again with any analysis.          *)
(***************************************************************************)
\* analyses whose repeated selections are compared: a regime of the table and
\* the one regime the v3 table has no branch for
SelectorProbes ==
    {an \in SelectorInputs :
        /\ an.regime \in {"STRONG_UPTREND", "UNKNOWN"}
        /\ an.volatility = VolLow /\ an.policy = "BALANCED"
        /\ an.urgency < NewsOverrideUrgency}

\* SmartMasterController._adjust_strategies(analysis) called with any analysis
adjust_strategies_v3(an) ==
    /\ AdjustStrategies(an)
    /\ UNCHANGED <<ledgerVars, callerVars, riskVars, cycleVars, workerVars, triggerVars,
                   v1Vars, fusionVars, planVars, sharedVars>>

\* MasterController._adjust_strategies(analysis)
adjust_strategies_v1(an) ==
    /\ v1_active_strategies' = AdjustStrategiesV1(an.regime, an.policy, an.urgency)
    /\ v1SelLast' = [made |-> TRUE, analysis |-> an]
    /\ UNCHANGED <<v1_ai_enabled, ai_available, ai_failure_count, last_debate_set, v1Last>>
    /\ UNCHANGED <<ledgerVars, callerVars, riskVars, cycleVars, workerVars, triggerVars,
                   selectorVars, fusionVars, planVars, sharedVars>>

InitSelector ==
    /\ LedgerIdle
    /\ RiskIdle
    /\ CycleIdle
    /\ WorkersIdle
    /\ TriggerIdle
    /\ V1Idle
    /\ FusionIdle
    /\ PlanIdle
    /\ SharedIdle
    /\ \E probe \in SelectorProbes : SelectorConstructed(probe)

NextSelector ==
    \/ \E an \in SelectorInputs : adjust_strategies_v3(an)
    \/ \E an \in SelectorInputsV1 : adjust_strategies_v1(an)

SpecSelector == InitSelector /\ [][NextSelector]_vars

NoStrategies == [spot |-> {}, futures |-> {}]

\* C17: a selection for STRONG_DOWNTREND leaves both instrument classes with
\* the empty strategy set, in the v3 and in the v1 controller, whatever the
\* volatility, the decision guide and the news urgency.
C17_StrongDowntrendSelectsNothing ==
    /\ (selLast.made /\ selLast.analysis.regime = "STRONG_DOWNTREND")
          => active_strategies = NoStrategies
    /\ (v1SelLast.made /\ v1SelLast.analysis.regime = "STRONG_DOWNTREND")
          => v1_active_strategies = NoStrategies

\* both controllers selected for a strong downtrend in a calm market with no
\* news override, after a selection that had left strategies active
C17_Witness ==
    /\ selLast.made
    /\ selLast.analysis.regime = "STRONG_DOWNTREND"
    /\ selLast.analysis.volatility = 20
    /\ selLast.analysis.policy = "BALANCED"
    /\ selProbeResult.made
    /\ selProbeResult.strategies # NoStrategies
    /\ active_strategies = NoStrategies
    /\ v1SelLast.made
    /\ v1SelLast.analysis.regime = "STRONG_DOWNTREND"
    /\ v1_active_strategies = NoStrategies

\* C18: a call of the v3 selector with the same (regime, volatility, decision
\* guide, news urgency) as an earlier call leaves the same active strategy
\* sets, whatever calls came in between, for every regime including UNKNOWN.
C18_SelectionDependsOnInputsOnly ==
    (selLast.made /\ selProbeResult.made /\ selLast.analysis = selProbe)
        => active_strategies = selProbeResult.strategies

\* C19: with decision guide NEWS_PRIORITY and news urgency >= 7.0 the selected
\* spot set is a subset of what the table selects without the override, and
\* the futures set is empty, in the v3 and in the v1 controller.
C19_NewsOverrideNarrows ==
    /\ (selLast.made /\ selLast.analysis.policy = "NEWS_PRIORITY"
                     /\ selLast.analysis.urgency >= 70) =>
          /\ active_strategies.spot \subseteq
                TableV3(NoStrategies, selLast.analysis.regime, selLast.analysis.volatility).spot
          /\ active_strategies.futures = {}
    /\ (v1SelLast.made /\ v1SelLast.analysis.policy = "NEWS_PRIORITY"
                       /\ v1SelLast.analysis.urgency >= 70) =>
          /\ v1_active_strategies.spot \subseteq
                AdjustStrategiesV1(v1SelLast.analysis.regime, "BALANCED", 0).spot
          /\ v1_active_strategies.futures = {}

(***************************************************************************)
(* Claims about the worker cycle                                           *)
(***************************************************************************)
\* the ledger granted a credit use in the last cycle before step i
CreditUsedBefore(i) == \E j \in 1..(i - 1) : cycleTrace[j] = "credit_use"

\* C3: in a cycle the external analysis call is made only after a credit use
\* for it succeeded in the same cycle; a ledger that cannot cover the cost
\* means no external call and a local-only result.
C3_CallOnlyAfterCreditUse ==
    /\ \A i \in 1..Len(cycleTrace) :
          cycleTrace[i] = "external_call" => CreditUsedBefore(i)
    /\ (~CanUseOf(used, reqAction) /\ cycleOutcome # "none") =>
          /\ \A i \in 1..Len(cycleTrace) : cycleTrace[i] # "external_call"
          /\ cycleOutcome \in {"local", "local_with_ai_context", "blocked"}

\* C20: a cycle run while the risk latch is set or a limit is breached still
\* does its local analysis and strategy selection and returns that analysis;
\* the risk check refuses position opening only.
C20_AnalysisRunsWhileLatched ==
    (cycleOutcome # "none" /\ riskOp = "check_risk_limits" /\ ~riskResult.trading_allowed) =>
        /\ \E i \in 1..Len(cycleTrace) : cycleTrace[i] = "local_analysis"
        /\ \E i \in 1..Len(cycleTrace) : cycleTrace[i] = "strategy_select"
        /\ cycleOutcome # "blocked"


(***************************************************************************)
(* Worker tasks (main.py) and DynamicWorkerManager (portfolio_manager.py). *)
(* Budgets are in thousands of KRW.  A task is at one of its awaits:       *)
(*   created      asyncio.create_task ran, the coroutine has not started   *)
(*   cycle        inside the try body of its loop                          *)
(*   sleep        at the cadence wait that ends a cycle                    *)
(*   error_sleep  at the sleep of its `except Exception` handler           *)
(*   done         left its loop through `except CancelledError: break`     *)
(*   cancelled    ended by a CancelledError no handler caught              *)
(*   failed       ended by an exception no handler caught                  *)
(***************************************************************************)
SpotBudget == 600

\* execute_spot_strategies: spot_trader.buy(coin, SPOT_BUDGET * 0.3, ...)
BuyAmount == (SpotBudget * 3) \div 10

\* budgets an allocation may give a ticker
Budgets == {200, 300}

\* the allocations dict passed to update_workers
Allocations == UNION {[S -> Budgets] : S \in SUBSET Tickers}

Finished == {"done", "cancelled", "failed"}

NewTask(kind, name) ==
    [kind |-> kind, name |-> name, pc |-> "created", cancelRequested |-> FALSE,
     change |-> "none", spent |-> NoBuy, caught |-> FALSE]

\* the running worker set, its budgets and what one manager call has done so far
MgrState ==
    [tasks |-> tasks, aw |-> active_workers, wb |-> worker_budgets,
     attempted |-> {}, started |-> {}, stopped |-> {}, rebudgeted |-> {}]

\* add_worker: self.bot.spot_worker(ticker, budget) is evaluated first; with
\* CoinMoneyBot.spot_worker(self, coin) it raises TypeError, which the
\* handler of add_worker logs, and nothing is registered.
AddWorker(st, ticker, budget) ==
    IF st.aw[ticker] # NoTask THEN st
    ELSE IF ~botAcceptsBudget THEN [st EXCEPT !.attempted = @ \cup {ticker}]
    ELSE [st EXCEPT !.tasks = Append(@, NewTask("managed", ticker)),
                    !.aw[ticker] = Len(st.tasks) + 1,
                    !.wb[ticker] = budget,
                    !.attempted = @ \cup {ticker},
                    !.started = @ \cup {ticker}]

\* remove_worker: task.cancel() and, at once, del of both entries
RemoveWorker(st, ticker) ==
    IF st.aw[ticker] = NoTask THEN st
    ELSE LET k == st.aw[ticker] IN
         [st EXCEPT !.tasks[k].cancelRequested = (@ \/ st.tasks[k].pc \notin Finished),
                    !.aw[ticker] = NoTask,
                    !.wb[ticker] = NoBudget,
                    !.stopped = @ \cup {ticker}]

\* mutant: the budget of a retained ticker is rewritten on every call
BudgetChanged_Always(new_budget, old_budget) == TRUE

\* update_workers: `if new_budget != old_budget`
BudgetChanged(new_budget, old_budget) == new_budget # old_budget

\* update_workers, step 3, for one retained ticker
UpdateBudget(st, ticker, new_budget) ==
    LET old_budget == IF st.wb[ticker] = NoBudget THEN 0 ELSE st.wb[ticker]
        k == st.aw[ticker]
    IN  IF BudgetChanged(new_budget, old_budget)
        THEN [st EXCEPT !.wb[ticker] = new_budget,
                        !.rebudgeted = @ \cup {ticker},
                        !.tasks[k].change = "pending",
                        !.tasks[k].spent = NoBuy]
        ELSE st

RECURSIVE AddAll(_, _, _)
AddAll(st, todo, target) ==
    IF todo = {} THEN st
    ELSE LET t == CHOOSE x \in todo : TRUE
         IN  AddAll(AddWorker(st, t, target[t]), todo \ {t}, target)

RECURSIVE RemoveAll(_, _)
RemoveAll(st, todo) ==
    IF todo = {} THEN st
    ELSE LET t == CHOOSE x \in todo : TRUE
         IN  RemoveAll(RemoveWorker(st, t), todo \ {t})

RECURSIVE UpdateAll(_, _, _)
UpdateAll(st, todo, target) ==
    IF todo = {} THEN st
    ELSE LET t == CHOOSE x \in todo : TRUE
         IN  UpdateAll(UpdateBudget(st, t, target[t]), todo \ {t}, target)

\* the manager's state after a call, and the record of the call
Commit(st, op, target, repeat) ==
    /\ Len(st.tasks) <= MaxTasks
    /\ tasks' = st.tasks
    /\ active_workers' = st.aw
    /\ worker_budgets' = st.wb
    /\ mgrLast' = [op |-> op, target |-> target, attempted |-> st.attempted,
                   started |-> st.started, stopped |-> st.stopped,
                   rebudgeted |-> st.rebudgeted, repeat |-> repeat,
                   before |-> active_workers]

\* DynamicWorkerManager.update_workers(allocations).  Its awaits are on
\* add_worker and remove_worker, which never suspend, so the call runs to
\* its end before any worker task runs again.
update_workers(allocations) ==
    /\ nCalls < MaxCalls
    /\ nCalls' = nCalls + 1
    /\ LET current_coins   == {t \in Tickers : active_workers[t] # NoTask}
           target_coins    == DOMAIN allocations
           coins_to_add    == target_coins \ current_coins
           coins_to_remove == current_coins \ target_coins
           coins_to_update == current_coins \cap target_coins
           st1 == AddAll(MgrState, coins_to_add, allocations)
           st2 == RemoveAll(st1, coins_to_remove)
           st3 == UpdateAll(st2, coins_to_update, allocations)
       IN  Commit(st3, "update_workers", allocations,
                  mgrLast.op = "update_workers" /\ mgrLast.target = allocations)
    /\ UNCHANGED <<botAcceptsBudget, runState>>
    /\ UNCHANGED notWorkers

\* DynamicWorkerManager.add_worker(ticker, budget), called directly
add_worker(ticker, budget) ==
    /\ nCalls < MaxCalls
    /\ nCalls' = nCalls + 1
    /\ Commit(AddWorker(MgrState, ticker, budget), "add_worker", <<>>, FALSE)
    /\ UNCHANGED <<botAcceptsBudget, runState>>
    /\ UNCHANGED notWorkers

\* DynamicWorkerManager.remove_worker(ticker), called directly
remove_worker(ticker) ==
    /\ nCalls < MaxCalls
    /\ nCalls' = nCalls + 1
    /\ Commit(RemoveWorker(MgrState, ticker), "remove_worker", <<>>, FALSE)
    /\ UNCHANGED <<botAcceptsBudget, runState>>
    /\ UNCHANGED notWorkers

TaskIds == 1..Len(tasks)

\* a cycle that starts after a budget change is the worker's next cycle
CycleStarts(change) == IF change = "pending" THEN "seen" ELSE change

\* where the loop of a task of this kind begins
FirstAwait(kind) == IF kind = "maintenance" THEN "sleep" ELSE "cycle"

\* mutant: the loop has no `except Exception`, the exception ends the task
OnException_Propagates(kind) == "failed"

\* `except Exception as e: error(...); await asyncio.sleep(..)`; the handler
\* of maintenance_task only logs and the loop goes back to its sleep
OnException(kind) == IF kind = "maintenance" THEN "sleep" ELSE "error_sleep"

workerFrame == <<botAcceptsBudget, active_workers, worker_budgets, mgrLast, nCalls>>

\* the event loop runs a created task for the first time
TaskBegin(k) ==
    /\ tasks[k].pc = "created"
    /\ ~tasks[k].cancelRequested
    /\ tasks' = [tasks EXCEPT ![k].pc = FirstAwait(tasks[k].kind),
                              ![k].change = CycleStarts(@)]
    /\ UNCHANGED <<workerFrame, runState>>
    /\ UNCHANGED notWorkers

\* the rest of a cycle up to its cadence sleep; a spot cycle may place a BUY
CycleEnd(k, buy) ==
    /\ tasks[k].pc = "cycle"
    /\ ~tasks[k].cancelRequested
    /\ tasks' = [tasks EXCEPT ![k].pc = "sleep",
                              ![k].spent = IF buy /\ tasks[k].kind \in {"spot", "managed"}
                                              /\ tasks[k].change = "seen"
                                           THEN BuyAmount ELSE @]
    /\ UNCHANGED <<workerFrame, runState>>
    /\ UNCHANGED notWorkers

\* the cadence sleep is over, the next cycle starts
Wake(k) ==
    /\ tasks[k].pc = "sleep"
    /\ ~tasks[k].cancelRequested
    /\ tasks' = [tasks EXCEPT ![k].pc = "cycle", ![k].change = CycleStarts(@)]
    /\ UNCHANGED <<workerFrame, runState>>
    /\ UNCHANGED notWorkers

\* an exception is raised inside the cycle of task k.  run() awaits
\* asyncio.gather(*tasks) without return_exceptions and catches only
\* KeyboardInterrupt: a task that ends with an exception ends run(), and
\* asyncio.run then cancels every task still pending.
CycleRaise(k) ==
    /\ tasks[k].pc = "cycle"
    /\ ~tasks[k].cancelRequested
    /\ LET after == OnException(tasks[k].kind)
           gathered == after = "failed" /\ tasks[k].kind # "managed"
                       /\ runState = "gathering"
       IN  /\ tasks' = [j \in TaskIds |->
                          IF j = k
                          THEN [tasks[j] EXCEPT !.pc = after, !.caught = (after # "failed")]
                          ELSE IF gathered /\ tasks[j].kind # "managed"
                                  /\ tasks[j].pc \notin Finished
                               THEN [tasks[j] EXCEPT !.cancelRequested = TRUE]
                               ELSE tasks[j]]
           /\ runState' = IF gathered THEN "failed" ELSE runState
    /\ UNCHANGED workerFrame
    /\ UNCHANGED notWorkers

\* the sleep of the exception handler is over, the loop goes on
Recover(k) ==
    /\ tasks[k].pc = "error_sleep"
    /\ ~tasks[k].cancelRequested
    /\ tasks' = [tasks EXCEPT ![k].pc = "cycle", ![k].change = CycleStarts(@)]
    /\ UNCHANGED <<workerFrame, runState>>
    /\ UNCHANGED notWorkers

\* the event loop throws CancelledError into the await the task is at: the
\* loop's handler breaks; out of the exception handler's sleep, or before
\* the coroutine started, nothing catches it
CancelDelivered(k) ==
    /\ tasks[k].cancelRequested
    /\ tasks[k].pc \notin Finished
    /\ tasks' = [tasks EXCEPT ![k].pc = IF tasks[k].pc \in {"created", "error_sleep"}
                                        THEN "cancelled" ELSE "done"]
    /\ UNCHANGED <<workerFrame, runState>>
    /\ UNCHANGED notWorkers

\* CoinMoneyBot.run up to `await asyncio.gather(*tasks)`
RunTasks(binance) ==
    <<NewTask("sentiment", "market")>>
    \o <<NewTask("spot", "KRW-BTC"), NewTask("spot", "KRW-ETH")>>
    \o (IF binance
        THEN <<NewTask("futures", "BTC/USDT"), NewTask("futures", "ETH/USDT")>>
        ELSE <<>>)
    \o <<NewTask("maintenance", "maintenance")>>

run(binance) ==
    /\ runState = "not_started"
    /\ tasks = <<>>
    /\ tasks' = RunTasks(binance)
    /\ runState' = "gathering"
    /\ UNCHANGED workerFrame
    /\ UNCHANGED notWorkers

InitWorkers ==
    /\ LedgerIdle
    /\ RiskIdle
    /\ CycleIdle
    /\ TriggerIdle
    /\ SelectorIdle
    /\ V1Idle
    /\ FusionIdle
    /\ PlanIdle
    /\ SharedIdle
    /\ \E a \in BOOLEAN : WorkersConstructed(a)

NextManager ==
    \/ \E a \in Allocations : update_workers(a)
    \/ \E t \in Tickers, b \in Budgets : add_worker(t, b)
    \/ \E t \in Tickers : remove_worker(t)
    \/ \E k \in TaskIds : TaskBegin(k)
    \/ \E k \in TaskIds, buy \in BOOLEAN : CycleEnd(k, buy)
    \/ \E k \in TaskIds : Wake(k)
    \/ \E k \in TaskIds : CycleRaise(k)
    \/ \E k \in TaskIds : Recover(k)
    \/ \E k \in TaskIds : CancelDelivered(k)

\* DynamicWorkerManager with the worker tasks it created
SpecManager == InitWorkers /\ [][NextManager]_vars

NextRun ==
    \/ \E b \in BOOLEAN : run(b)
    \/ \E k \in TaskIds : TaskBegin(k)
    \/ \E k \in TaskIds, buy \in BOOLEAN : CycleEnd(k, buy)
    \/ \E k \in TaskIds : Wake(k)
    \/ \E k \in TaskIds : CycleRaise(k)
    \/ \E k \in TaskIds : Recover(k)

\* CoinMoneyBot.run with the tasks it gathers
SpecRun == InitWorkers /\ [][NextRun]_vars

(***************************************************************************)
(* Claims about the worker manager and the worker tasks                    *)
(***************************************************************************)
\* C7: update_workers called twice in a row with the same allocations starts
\* no worker, stops no worker and changes no budget on the second call.
C7_ReconcileIdempotent ==
    (mgrLast.op = "update_workers" /\ mgrLast.repeat) =>
        /\ mgrLast.started = {}
        /\ mgrLast.stopped = {}
        /\ mgrLast.rebudgeted = {}
        /\ active_workers = mgrLast.before

\* a second call with the same non-empty allocations over registered workers
C7_Witness ==
    /\ mgrLast.op = "update_workers"
    /\ mgrLast.repeat
    /\ DOMAIN mgrLast.target = Tickers
    /\ \A t \in Tickers : active_workers[t] # NoTask /\ worker_budgets[t] = mgrLast.target[t]

\* with CoinMoneyBot every call attempts the same starts again and none succeeds
C7_WitnessRejected ==
    /\ mgrLast.op = "update_workers"
    /\ mgrLast.repeat
    /\ ~botAcceptsBudget
    /\ mgrLast.attempted = Tickers
    /\ mgrLast.started = {}

\* C8: a worker whose cancellation was requested keeps its handle in the
\* registry until its task has stopped.
C8_RegisteredUntilAcknowledged ==
    \A k \in TaskIds :
        (tasks[k].kind = "managed" /\ tasks[k].cancelRequested /\ tasks[k].pc \notin Finished)
            => active_workers[tasks[k].name] = k

\* C9: an exception raised inside the cycle of one task gathered by run() is
\* caught by that task, which goes on looping; no gathered task ends or is
\* cancelled and run() does not end.
C9_ExceptionIsolated ==
    /\ runState # "failed"
    /\ \A k \in TaskIds :
          /\ tasks[k].pc \notin Finished
          /\ ~tasks[k].cancelRequested

\* a spot worker caught an exception and is in a later cycle again, while the
\* sentiment task and the other spot worker run on under run()
C9_Witness ==
    /\ runState = "gathering"
    /\ tasks[2].kind = "spot" /\ tasks[2].caught /\ tasks[2].pc = "cycle"
    /\ tasks[1].kind = "sentiment" /\ tasks[1].pc = "sleep" /\ ~tasks[1].caught
    /\ tasks[3].kind = "spot" /\ tasks[3].pc = "cycle" /\ ~tasks[3].caught

\* C10: a budget change of a retained ticker keeps the task handle, and the
\* amount the worker uses in a cycle started after the change is the budget
\* now in the registry.
C10_RebudgetInPlace ==
    /\ mgrLast.op = "update_workers" =>
          \A t \in mgrLast.rebudgeted : active_workers[t] = mgrLast.before[t]
    /\ \A k \in TaskIds :
          (/\ tasks[k].kind = "managed"
           /\ active_workers[tasks[k].name] = k
           /\ tasks[k].change = "seen"
           /\ tasks[k].spent # NoBuy)
              => tasks[k].spent = worker_budgets[tasks[k].name]


(***************************************************************************)
(* Fusion as a function of its two inputs: the local and the external      *)
(* result are drawn at the start, then one of the three fusions the        *)
(* controllers perform is applied together with the state update after it. *)
(***************************************************************************)
notFusion == <<ledgerVars, callerVars, riskVars, cycleVars, workerVars, triggerVars,
               selectorVars, v1Vars, planVars, sharedVars>>

\* v1: _combine_analysis, then the rest of analyze_and_adjust
combine_analysis ==
    /\ ~fuseOut.made
    /\ fuseLocal \in TechnicalResultsV1
    /\ fuseOut' = UpdateV1(CombineAnalysisV1(fuseExternal, fuseLocal))
    /\ UNCHANGED <<fuseLocal, fuseExternal, notFusion>>

\* v3 after a fresh debate: _merge_results(..., 'ai_primary'), _adjust_strategies
merge_ai_primary ==
    /\ ~fuseOut.made
    /\ fuseLocal \in LocalResultsV3
    /\ fuseOut' = MergeAiPrimaryV3(fuseLocal, fuseExternal)
    /\ UNCHANGED <<fuseLocal, fuseExternal, notFusion>>

\* v3 with a cached debate: _merge_results(..., 'local_primary'), _adjust_strategies
merge_local_primary ==
    /\ ~fuseOut.made
    /\ fuseLocal \in LocalResultsV3
    /\ fuseOut' = MergeLocalPrimaryV3(fuseLocal, fuseExternal)
    /\ UNCHANGED <<fuseLocal, fuseExternal, notFusion>>

InitFusion ==
    /\ LedgerIdle
    /\ RiskIdle
    /\ CycleIdle
    /\ WorkersIdle
    /\ TriggerIdle
    /\ SelectorIdle
    /\ V1Idle
    /\ PlanIdle
    /\ SharedIdle
    /\ \E local \in TechnicalResultsV1 \cup LocalResultsV3, external \in ExternalResults :
           FusionConstructed(local, external)

NextFusion ==
    \/ combine_analysis
    \/ merge_ai_primary
    \/ merge_local_primary

SpecFusion == InitFusion /\ [][NextFusion]_vars

\* a fusion of complete results went through
FusedComplete ==
    /\ fuseOut.made
    /\ ~fuseOut.raised
    /\ fuseExternal.confidence # Absent
    /\ fuseExternal.news_urgency # Absent

\* C22: an external news urgency of 7 or more gives NEWS_PRIORITY and the
\* external regime; 3 or less gives CHART_PRIORITY and the local regime, the
\* external urgency only annotated; anything strictly between gives BALANCED.
C22_UrgencyPicksPolicy ==
    FusedComplete =>
        /\ fuseExternal.news_urgency >= 70 =>
               /\ fuseOut.decision_guide = "NEWS_PRIORITY"
               /\ fuseOut.regime = fuseExternal.regime
        /\ fuseExternal.news_urgency <= 30 =>
               /\ fuseOut.decision_guide = "CHART_PRIORITY"
               /\ fuseOut.regime = fuseLocal.regime
               /\ fuseOut.news_urgency = fuseExternal.news_urgency
        /\ (fuseExternal.news_urgency > 30 /\ fuseExternal.news_urgency < 70) =>
               fuseOut.decision_guide = "BALANCED"


\* v1 took the BALANCED branch and found the two regimes agreeing
BalancedAgreeing ==
    /\ FusedComplete
    /\ fuseOut.impl = "v1"
    /\ fuseExternal.decision_guide = "BALANCED"
    /\ fuseExternal.regime = fuseLocal.regime

\* C25 as stated: in BALANCED fusion with agreeing regimes the fused confidence
\* is at least the confidence before the boost and at most 0.95.
C25_BoostedAtLeastBefore ==
    BalancedAgreeing =>
        /\ fuseOut.confidence >= fuseExternal.confidence
        /\ fuseOut.confidence <= 950

\* C25: in BALANCED fusion with agreeing regimes the fused confidence is at
\* most 0.95; it is at least the external confidence before the boost whenever
\* that confidence is itself at most 0.95, and is 0.95 when it was higher.
C25_BoostCappedAt95 ==
    BalancedAgreeing =>
        /\ fuseOut.confidence <= 950
        /\ fuseExternal.confidence <= 950 => fuseOut.confidence >= fuseExternal.confidence
        /\ fuseExternal.confidence > 950 => fuseOut.confidence = 950
        /\ fuseOut.regime = fuseExternal.regime

\* an external confidence of 0.9 boosted and cut off at 0.95
C25_Witness ==
    /\ BalancedAgreeing
    /\ fuseExternal.confidence = 900
    /\ fuseOut.confidence = 950


\* C26: in BALANCED fusion with disagreeing regimes the fused regime is that of
\* the source with the higher confidence, and the fused decision records a
\* conflict holding both regimes.
C26_DisagreementKeepsStrongerAndConflict ==
    (FusedComplete /\ fuseExternal.decision_guide = "BALANCED"
       /\ fuseExternal.regime # fuseLocal.regime) =>
        /\ fuseExternal.confidence > fuseLocal.confidence =>
               fuseOut.regime = fuseExternal.regime
        /\ fuseLocal.confidence > fuseExternal.confidence =>
               fuseOut.regime = fuseLocal.regime
        /\ fuseOut.conflict

\* C27: an external news urgency of 8 with matching regimes gives a fused
\* confidence of at least the local confidence and NEWS_PRIORITY, whatever the
\* two confidences are.
C27_UrgentAgreementKeepsConfidence ==
    (FusedComplete /\ fuseExternal.news_urgency = 80
       /\ fuseExternal.regime = fuseLocal.regime) =>
        /\ fuseOut.confidence >= fuseLocal.confidence
        /\ fuseOut.decision_guide = "NEWS_PRIORITY"

\* C28: fusion and the state update after it never raise on a result with
\* missing fields; an absent confidence is taken as 0.5 and an absent news
\* urgency as 5.0.
C28_MissingFieldsDefaulted ==
    fuseOut.made =>
        /\ ~fuseOut.raised
        /\ (fuseExternal.confidence = Absent /\ fuseOut.base = "external") =>
               fuseOut.confidence = 500
        /\ fuseExternal.news_urgency = Absent => fuseOut.news_urgency = 50


(***************************************************************************)
(* PortfolioManager.analyze_and_allocate as a function of the candidates   *)
(* of the scan and of the selection that came back.  Budgets are in KRW;   *)
(* an allocation fraction is kept exact as num / den.                      *)
(***************************************************************************)
TotalBudget == SpotBudget * 1000

MinAllocation == 50
MaxAllocation == 400

CoreCoins == {"KRW-BTC", "KRW-ETH"}

PlanTickers == {"KRW-BTC", "KRW-ETH", "KRW-XRP", "KRW-DOGE"}

\* scores of candidates that passed min_score
CandidateScores == {20, 50, 90}

\* allocations a selection may name, in thousandths
NamedAllocations == {0, 50, 400, 600}

\* scan_all_coins: up to four distinct tickers, best score first
CandidateLists ==
    {c \in UNION {[1..n -> [ticker : PlanTickers, weight : CandidateScores]] : n \in 1..4} :
        \A i, j \in DOMAIN c :
            i < j => (c[i].ticker # c[j].ticker /\ c[i].weight >= c[j].weight)}

\* scans of a manager constructed with min_score = 0: candidates whose scores
\* are all zero
ZeroScoreLists ==
    {<<[ticker |-> "KRW-BTC", weight |-> 0]>>,
     <<[ticker |-> "KRW-XRP", weight |-> 0], [ticker |-> "KRW-DOGE", weight |-> 0]>>}

\* the 'selected' list of a parsed response: any tickers, repeated or not
ExternalSelections ==
    UNION {[1..n -> [ticker : {"KRW-BTC", "KRW-XRP", "KRW-DOGE"}, weight : NamedAllocations]] :
              n \in 0..3}

RECURSIVE SumWeights(_)
SumWeights(sel) == IF sel = <<>> THEN 0 ELSE Head(sel).weight + SumWeights(Tail(sel))

\* _default_ai_selection: the first three candidates, each by its share of
\* their scores
DefaultAiSelection(candidates) ==
    LET top_3 == SubSeq(candidates, 1, Min(3, Len(candidates)))
        total_score == SumWeights(top_3)
    IN  [i \in 1..Len(top_3) |->
            [ticker |-> top_3[i].ticker, num |-> top_3[i].weight, den |-> total_score]]

\* coin['score'] / total_score raises ZeroDivisionError
DefaultSelectionRaises(candidates) ==
    SumWeights(SubSeq(candidates, 1, Min(3, Len(candidates)))) = 0

PositiveAllocation(item) == item.weight > 0

\* _parse_ai_response from the parsed 'selected' list on
ParseAiResponse(selected, candidates) ==
    IF selected = <<>>
    THEN DefaultAiSelection(candidates)
    ELSE LET kept == SelectSeq(selected, PositiveAllocation)
             total_allocation == SumWeights(kept)
             den == IF total_allocation > 0 /\ Abs(total_allocation - 1000) > 10
                    THEN total_allocation ELSE 1000
         IN  [i \in 1..Len(kept) |->
                 [ticker |-> kept[i].ticker, num |-> kept[i].weight, den |-> den]]

\* int(self.total_budget * allocation_pct)
BudgetOf(num, den) == (TotalBudget * num) \div den

\* the allocations dict: one entry per ticker, a later item of the same
\* ticker replacing the earlier one
AllocateBudgets(sel) ==
    {[ticker |-> sel[i].ticker, num |-> sel[i].num, den |-> sel[i].den,
      budget |-> BudgetOf(sel[i].num, sel[i].den)] :
        i \in {j \in 1..Len(sel) : \A k \in (j + 1)..Len(sel) : sel[k].ticker # sel[j].ticker}}

analyze_and_allocate ==
    /\ ~planOut.made
    /\ LET usesDefault == ~planInput.external \/ planInput.selected = <<>>
           sel == IF planInput.external
                  THEN ParseAiResponse(planInput.selected, planInput.candidates)
                  ELSE DefaultAiSelection(planInput.candidates)
           none == [made |-> TRUE, failed |-> TRUE, allocations |-> {}]
       IN  planOut' =
               IF planInput.candidates = <<>>
               THEN none  \* "if not top_10 ...: return None"
               ELSE IF usesDefault /\ DefaultSelectionRaises(planInput.candidates)
               THEN none  \* ZeroDivisionError caught by the outer except
               ELSE IF sel = <<>>
               THEN none
               ELSE [made |-> TRUE, failed |-> FALSE, allocations |-> AllocateBudgets(sel)]
    /\ UNCHANGED <<planInput, ledgerVars, callerVars, riskVars, cycleVars, workerVars,
                   triggerVars, selectorVars, v1Vars, fusionVars, sharedVars>>

\* the candidates an external selection is parsed against
ScannedTop ==
    <<[ticker |-> "KRW-BTC", weight |-> 90], [ticker |-> "KRW-XRP", weight |-> 50],
      [ticker |-> "KRW-DOGE", weight |-> 20]>>

InitPlan ==
    /\ LedgerIdle
    /\ RiskIdle
    /\ CycleIdle
    /\ WorkersIdle
    /\ TriggerIdle
    /\ SelectorIdle
    /\ V1Idle
    /\ FusionIdle
    /\ SharedIdle
    /\ \/ \E c \in CandidateLists \cup ZeroScoreLists \cup {<<>>} :
             PlanConstructed([external |-> FALSE, candidates |-> c, selected |-> <<>>])
       \/ \E sel \in ExternalSelections :
             PlanConstructed([external |-> TRUE, candidates |-> ScannedTop, selected |-> sel])

NextPlan == analyze_and_allocate

SpecPlan == InitPlan /\ [][NextPlan]_vars

RECURSIVE SumBudgets(_)
SumBudgets(entries) ==
    IF entries = {} THEN 0
    ELSE LET e == CHOOSE x \in entries : TRUE IN e.budget + SumBudgets(entries \ {e})

RECURSIVE SumNums(_)
SumNums(entries) ==
    IF entries = {} THEN 0
    ELSE LET e == CHOOSE x \in entries : TRUE IN e.num + SumNums(entries \ {e})

PlanReturned == planOut.made /\ ~planOut.failed

\* C29: the budgets of a plan sum to exactly the total budget, the rounding
\* residue going to the largest entry, so nothing is left unallocated.
C29_BudgetsSumToTotal ==
    PlanReturned => SumBudgets(planOut.allocations) = TotalBudget

\* C30: the fractions of a plan sum to 1.0 within 0.01, and every fraction of
\* a ticker outside the core coins lies between 5% and 40%, whatever the scores
\* or the selection were, repeated tickers included.
C30_FractionsNormalisedAndBounded ==
    PlanReturned =>
        /\ \A e \in planOut.allocations :
               Abs(SumNums(planOut.allocations) - e.den) * 1000 <= 10 * e.den
        /\ \A e \in planOut.allocations :
               e.ticker \notin CoreCoins =>
                   /\ e.num * 1000 >= MinAllocation * e.den
                   /\ e.num * 1000 <= MaxAllocation * e.den


\* no candidate passed the minimum score, or the candidates selected by
\* default have a total score of zero
PlanDegenerate ==
    /\ ~planInput.external
    /\ \/ planInput.candidates = <<>>
       \/ DefaultSelectionRaises(planInput.candidates)

\* the budget split equally across the core coins and nothing else
EqualCoreSplit ==
    {[ticker |-> t, num |-> 1, den |-> Cardinality(CoreCoins),
      budget |-> TotalBudget \div Cardinality(CoreCoins)] : t \in CoreCoins}

\* C31: in the degenerate case the planner does not fail and does not return
\* an empty result: it returns the budget split equally across the core coins.
C31_DegenerateFallsBackToCore ==
    (planOut.made /\ PlanDegenerate) =>
        /\ ~planOut.failed
        /\ planOut.allocations = EqualCoreSplit


(***************************************************************************)
(* The decision should_call_ai hands back                                  *)
(***************************************************************************)
UrgencyTiers == {"low", "normal", "high", "emergency"}

\* C32: an emergency news tag always yields the tier 'emergency'; otherwise
\* the tier follows the score bands (80 emergency, 60 high, 40 normal, else
\* low); every returned decision's tier is one of the four tiers.
C32_UrgencyTierFromTagOrBands ==
    (trigDecision.made /\ ~trigDecision.raised) =>
        /\ (trigInput.has_news /\ trigInput.emergency) => trigDecision.urgency = "emergency"
        /\ trigDecision.urgency \in UrgencyTiers
        /\ (~trigDecision.blocked /\ ~(trigInput.has_news /\ trigInput.emergency)) =>
               trigDecision.urgency =
                   IF trigDecision.score >= 800 THEN "emergency"
                   ELSE IF trigDecision.score >= 600 THEN "high"
                   ELSE IF trigDecision.score >= 400 THEN "normal" ELSE "low"

\* C35: should_call_ai returns a decision without raising in every state of
\* the scorer, the first call that crosses the threshold included, and every
\* decision it returns, blocked ones included, holds should_call, score and
\* threshold.
C35_DecisionAlwaysReturnedComplete ==
    trigDecision.made =>
        /\ ~trigDecision.raised
        /\ trigDecision.has_threshold


(***************************************************************************)
(* The v3 selector around the edges of its volatility buckets              *)
(***************************************************************************)
\* volatilities just under, at and just over 5% and 10%
BucketInputs ==
    [regime : {"WEAK_DOWNTREND", "SIDEWAYS", "WEAK_UPTREND"},
     volatility : {VolLow - 1, VolLow, VolMed - 1, VolMed, VolMed + 1},
     policy : Policies, urgency : {NewsOverrideUrgency - 1, NewsOverrideUrgency}]

InitBuckets ==
    /\ LedgerIdle
    /\ RiskIdle
    /\ CycleIdle
    /\ WorkersIdle
    /\ TriggerIdle
    /\ V1Idle
    /\ FusionIdle
    /\ PlanIdle
    /\ SharedIdle
    /\ \E probe \in SelectorProbes : SelectorConstructed(probe)

NextBuckets == \E an \in BucketInputs \cup SelectorProbes : adjust_strategies_v3(an)

SpecBuckets == InitBuckets /\ [][NextBuckets]_vars

\* the last selection was for a weak downtrend, with no news override
WeakDowntrendFromTable ==
    /\ selLast.made
    /\ selLast.analysis.regime = "WEAK_DOWNTREND"
    /\ ~NewsOverride(selLast.analysis.policy, selLast.analysis.urgency)

C34_DailyLossOnlyOnLoss ==
    riskOp = "check_risk_limits" =>
        /\ riskResult.reason = "daily_loss" => daily_loss_percent <= 0 - DailyLossLimit
        /\ "daily_loss" \in riskResult.warnings =>
               daily_loss_percent <= 0 - WarningThreshold(DailyLossLimit)

\* the risk manager restored near its caps, without drawdown reports
InitCaps ==
    /\ RiskConstructed([consecutive_losses |-> MaxConsecutiveLosses - 1,
                        spot_trades |-> MaxTradesPerDaySpot - 1,
                        futures_trades |-> MaxTradesPerDayFutures - 1])
    /\ LedgerIdle
    /\ CycleIdle
    /\ WorkersIdle
    /\ TriggerIdle
    /\ SelectorIdle
    /\ V1Idle
    /\ FusionIdle
    /\ PlanIdle
    /\ SharedIdle

NextCaps ==
    \/ check_risk_limits
    \/ \E e \in Exchanges : can_open_position(e)
    \/ resume_trading
    \/ \E e \in Exchanges, p \in PnlValues : record_trade(e, p, p > 0)
    \/ reset_daily_stats
    \/ \E e \in Exchanges : \E c \in Coins[e], o \in BOOLEAN : update_position(e, c, o)

SpecCaps == InitCaps /\ [][NextCaps]_vars

\* C37: resume_trading clears the latch and its stored reason; the next
\* check_risk_limits allows trading if no hard limit is breached, and sets the
\* latch again and refuses if one still is.
C37_ResumeThenRecheck ==
    [][/\ (riskOp' = "resume_trading") =>
              (trading_enabled' /\ emergency_stop_reason' = "None")
       /\ (riskOp = "resume_trading" /\ riskOp' = "check_risk_limits") =>
              /\ riskResult'.trading_allowed = ~HardBreach
              /\ trading_enabled' = ~HardBreach
              /\ HardBreach => emergency_stop_reason' = RiskFindings.reason]_vars

\* trading was resumed while a hard limit is still breached
C37_Witness ==
    /\ riskOp = "resume_trading"
    /\ trading_enabled
    /\ emergency_stop_reason = "None"
    /\ HardBreach

\* the open-position cap or the trades-per-day cap of one market class is reached
CapReached(e) ==
    \/ Cardinality(positions[e]) >= MaxPositions[e]
    \/ daily_trades[e] >= MaxTradesPerDay[e]

\* C38: with the latch clear and no hard limit breached, can_open_position of
\* a market class answers False exactly while a cap of that class is reached:
\* a cap does not set the latch, does not block the other class, and the
\* answer is True again once the count is below the cap.
C38_CapsBlockOneClassOnly ==
    [][\A e \in Exchanges :
          (can_open_position(e) /\ trading_enabled /\ ~HardBreach) =>
              /\ riskResult'.trading_allowed = ~CapReached(e)
              /\ trading_enabled'
              /\ emergency_stop_reason' = emergency_stop_reason]_vars

\* futures refused at its position cap while spot is below its own caps
C38_Witness ==
    /\ riskOp = "can_open_position"
    /\ riskResult.reason = "futures_positions"
    /\ ~riskResult.trading_allowed
    /\ trading_enabled
    /\ CapReached("futures")
    /\ ~CapReached("spot")

(***************************************************************************)
(* Several threads inside analyze_and_adjust of the shared controller.     *)
(* Everything up to final_result is local to the call; _adjust_strategies  *)
(* then writes the instance fields and the return statement reads them     *)
(* back.  A thread switch can fall between any two statements.             *)
(***************************************************************************)
\* final results of the threads' own analyses: regimes the table has a row for
SharedInputs ==
    {an \in SelectorInputs :
        \/ an.regime = "STRONG_UPTREND" /\ an.volatility = VolMed
              /\ an.policy = "BALANCED" /\ an.urgency < NewsOverrideUrgency
        \/ an.regime = "WEAK_DOWNTREND" /\ an.volatility = 20
              /\ an.policy = "BALANCED" /\ an.urgency < NewsOverrideUrgency
        \/ an.regime = "SIDEWAYS" /\ an.volatility = VolLow
              /\ an.policy = "NEWS_PRIORITY" /\ an.urgency >= NewsOverrideUrgency}

notShared == <<ledgerVars, callerVars, riskVars, cycleVars, workerVars, triggerVars,
               v1Vars, fusionVars, planVars>>

\* analyze_and_adjust up to the call of _adjust_strategies: the thread's own
\* final_result
call_analyze(w, an) ==
    /\ callPc[w] = "idle"
    /\ callPc' = [callPc EXCEPT ![w] = "fields"]
    /\ callAnalysis' = [callAnalysis EXCEPT ![w] = an]
    /\ callReturned' = [callReturned EXCEPT ![w] = NoReturn]
    /\ UNCHANGED <<selectorVars, notShared>>

\* _adjust_strategies: self.current_regime, self.decision_guide and
\* self.news_urgency are set from the analysis
call_set_fields(w) ==
    /\ callPc[w] = "fields"
    /\ callPc' = [callPc EXCEPT ![w] = "table"]
    /\ current_regime' = callAnalysis[w].regime
    /\ decision_guide' = callAnalysis[w].policy
    /\ news_urgency' = callAnalysis[w].urgency
    /\ UNCHANGED <<active_strategies, selProbe, selProbeResult, selLast, callAnalysis,
                   callReturned, notShared>>

\* _adjust_strategies: the table is indexed by the locals regime and
\* vol_level, the news override reads self.decision_guide and
\* self.news_urgency
call_set_strategies(w) ==
    /\ callPc[w] = "table"
    /\ callPc' = [callPc EXCEPT ![w] = "return"]
    /\ active_strategies' = AdjustStrategiesV3(active_strategies, callAnalysis[w].regime,
                                                callAnalysis[w].volatility,
                                                decision_guide, news_urgency)
    /\ selLast' = [made |-> TRUE, analysis |-> callAnalysis[w]]
    /\ UNCHANGED <<current_regime, decision_guide, news_urgency, selProbe, selProbeResult,
                   callAnalysis, callReturned, notShared>>

\* the return statement of analyze_and_adjust reads the instance fields
call_return(w) ==
    /\ callPc[w] = "return"
    /\ callPc' = [callPc EXCEPT ![w] = "idle"]
    /\ callReturned' = [callReturned EXCEPT ![w] =
                           [made |-> TRUE, regime |-> current_regime,
                            decision_guide |-> decision_guide,
                            strategies |-> active_strategies]]
    /\ UNCHANGED <<callAnalysis, selectorVars, notShared>>

InitShared ==
    /\ LedgerIdle
    /\ RiskIdle
    /\ CycleIdle
    /\ WorkersIdle
    /\ TriggerIdle
    /\ SelectorIdle
    /\ V1Idle
    /\ FusionIdle
    /\ PlanIdle
    /\ SharedConstructed

NextShared ==
    \E w \in ControllerCallers :
        \/ \E an \in SharedInputs : call_analyze(w, an)
        \/ call_set_fields(w)
        \/ call_set_strategies(w)
        \/ call_return(w)

SpecShared == InitShared /\ [][NextShared]_vars

\* what _adjust_strategies selects from one analysis alone
SelectedFrom(an) ==
    [made |-> TRUE, regime |-> an.regime, decision_guide |-> an.policy,
     strategies |-> AdjustStrategiesV3(EnabledStrategies, an.regime, an.volatility,
                                       an.policy, an.urgency)]

\* C36: with several workers calling analyze_and_adjust of the shared
\* controller concurrently, the regime, decision policy and strategy sets
\* returned to a worker are those selected from that worker's own analysis in
\* that call, never those written by another worker's interleaved call.
C36_ReturnsOwnSelection ==
    \A w \in ControllerCallers :
        callReturned[w].made => callReturned[w] = SelectedFrom(callAnalysis[w])

(***************************************************************************)
(* The two registries of the worker manager                                *)
(***************************************************************************)
\* C39: after any sequence of update_workers, add_worker and remove_worker
\* calls the tickers with a registered task are the tickers with a registered
\* budget, and after update_workers(target) returns that set is the key set
\* of target.
C39_RegistriesMatchTarget ==
    LET registered == {t \in Tickers : active_workers[t] # NoTask}
        budgeted   == {t \in Tickers : worker_budgets[t] # NoBudget}
    IN  /\ registered = budgeted
        /\ mgrLast.op = "update_workers" => registered = DOMAIN mgrLast.target

=============================================================================
